---- MODULE Spec2Model ----
(***************************************************************************)
(* Model of the streaming translation core of the gateway:                 *)
(*   - StreamingToolCallState (src/services/streaming-tool-state.ts), the   *)
(*     state machine that turns upstream chat-completion chunks into the    *)
(*     ordered message-stream events of the source protocol;                *)
(*   - the streaming branch of the messages route, which drives it and      *)
(*     writes the events to the response.                                   *)
(* The source file holds two builds of the class: one that keeps the        *)
(* upstream usage in actualUsage, one that keeps a running cumulativeUsage. *)
(* The variable build says which one the session runs.                      *)
(***************************************************************************)
EXTENDS Integers, Sequences, FiniteSets, TLC

----------------------------------------------------------------------------
(* Bounds *)

MaxChunks == 3
MaxCalls == 3

ToolIndexes == {0, 1}
OutIndexes == {0, 1, 2}

----------------------------------------------------------------------------
(* Inputs: the request of the session and the upstream chunks *)

Builds == {"actualUsage", "cumulativeUsage"}

TextFragments == {<<"x">>}
FinishReasons == {"stop", "length", "tool_calls", "content_filter"}
UsageTotals == {[prompt_tokens |-> 9, completion_tokens |-> 7]}

ToolCallDelta(i, hasId, hasName, args) ==
    [index |-> i, id |-> hasId, name |-> hasName, arguments |-> args]

\* fragments that carry the id, the name or both, with or without arguments
OpeningDeltas ==
    {ToolCallDelta(i, hasId, hasName, args) :
        i \in ToolIndexes, hasId \in BOOLEAN, hasName \in BOOLEAN,
        args \in {<<>>, <<"a">>}} \ [index : ToolIndexes, id : {FALSE}, name : {FALSE}, arguments : {<<>>, <<"a">>}]

\* fragments that carry neither
ArgumentDeltas ==
    {ToolCallDelta(i, FALSE, FALSE, args) : i \in ToolIndexes, args \in {<<>>, <<"a">>, <<"b">>}}

ToolCallDeltas == OpeningDeltas \cup ArgumentDeltas

FullOpenings == {d \in OpeningDeltas : d.id /\ d.name}

\* tool_calls of one chunk: one fragment, or two calls opened at once
ToolCallLists ==
    {<<d>> : d \in ToolCallDeltas}
    \cup {<<d1, d2>> : d1 \in {d \in FullOpenings : d.arguments = <<>>},
                       d2 \in {d \in FullOpenings : d.arguments = <<>>}}

Chunk(r, c, t, f, u) ==
    [role |-> r, content |-> c, tool_calls |-> t, finish_reason |-> f, usage |-> u]

(* processChunk treats the parts of a chunk one after the other: role,     *)
(* content, tool_calls, finish_reason, usage. The chunks are those with    *)
(* one part and the combinations of parts that upstream servers send.      *)

\* nothing, text, or tool-call fragments
BodyChunks ==
    {Chunk(FALSE, <<>>, <<>>, "", <<>>)}
    \cup {Chunk(FALSE, c, <<>>, "", <<>>) : c \in TextFragments}
    \cup {Chunk(FALSE, <<>>, t, "", <<>>) : t \in ToolCallLists}

\* the role marker: alone, with text, or with the opening of a tool call
RoleChunks ==
    {Chunk(TRUE, <<>>, <<>>, "", <<>>)}
    \cup {Chunk(TRUE, c, <<>>, "", <<>>) : c \in TextFragments}
    \cup {Chunk(TRUE, <<>>, <<d>>, "", <<>>) : d \in FullOpenings}

\* the finish reason, the usage totals, or both
TrailerChunks ==
    {Chunk(FALSE, <<>>, <<>>, f, <<>>) : f \in FinishReasons}
    \cup {Chunk(FALSE, <<>>, <<>>, "", <<u>>) : u \in UsageTotals}
    \cup {Chunk(FALSE, <<>>, <<>>, f, <<u>>) : f \in FinishReasons, u \in UsageTotals}

\* the last text or the opening of a call together with the finish reason
ClosingChunks ==
    {Chunk(FALSE, c, <<>>, "stop", <<>>) : c \in TextFragments}
    \cup {Chunk(FALSE, <<>>, <<d>>, "tool_calls", <<>>) :
             d \in {o \in FullOpenings : o.arguments = <<>>}}

Chunks == BodyChunks \cup RoleChunks \cup TrailerChunks \cup ClosingChunks

(* Chunks whose translation throws. throwsAt says where: "chunk" when the  *)
(* chunk itself is null, so that reading chunk.choices throws before        *)
(* anything else; "tool_calls" when delta.tool_calls holds the well-formed  *)
(* fragments of the chunk followed by a null entry (or is not a list at     *)
(* all), so that the loop over it throws after the role, the content and    *)
(* the fragments before the entry have been processed.                      *)
Malformed(chunk, at) == [chunk |-> chunk, throwsAt |-> at]

MalformedChunks ==
    {Malformed(Chunk(FALSE, <<>>, <<>>, "", <<>>), "chunk")}
    \cup {Malformed(Chunk(TRUE, <<>>, <<>>, "", <<>>), "tool_calls")}
    \cup {Malformed(Chunk(FALSE, c, <<>>, "", <<>>), "tool_calls") : c \in TextFragments}
    \cup {Malformed(Chunk(FALSE, <<>>, <<d>>, "", <<>>), "tool_calls") :
             d \in {o \in FullOpenings : o.arguments = <<>>}}

----------------------------------------------------------------------------
(* Events of the source protocol *)

NoIndex == 0 - 1

Event(t, k, i, b, x, r, u) ==
    [type |-> t, index |-> k, tool |-> i, block |-> b, text |-> x,
     stop_reason |-> r, usage |-> u]

Usage(i, o) == [input_tokens |-> i, output_tokens |-> o]

MessageStartEvent(u) == Event("message_start", NoIndex, NoIndex, "", <<>>, "", <<u>>)
TextBlockStart(k) == Event("content_block_start", k, NoIndex, "text", <<>>, "", <<>>)
TextDelta(k, x) == Event("content_block_delta", k, NoIndex, "text_delta", x, "", <<>>)
ToolBlockStart(k, i) == Event("content_block_start", k, i, "tool_use", <<>>, "", <<>>)
ToolDelta(k, i, x) == Event("content_block_delta", k, i, "input_json_delta", x, "", <<>>)
BlockStop(k, i) == Event("content_block_stop", k, i, "", <<>>, "", <<>>)
MessageDeltaEvent(r, u) == Event("message_delta", NoIndex, NoIndex, "", <<>>, r, <<u>>)
MessageStopEvent == Event("message_stop", NoIndex, NoIndex, "", <<>>, "", <<>>)
\* the error event; x is its message
ErrorEvent(x) == Event("error", NoIndex, NoIndex, "", x, "", <<>>)

----------------------------------------------------------------------------
(* The request-based input token estimate made by the constructor *)

CeilDiv4(n) == (n + 3) \div 4

RECURSIVE SumLen(_)
SumLen(lens) == IF lens = <<>> THEN 0 ELSE Head(lens) + SumLen(Tail(lens))

RECURSIVE SumTokens(_)
SumTokens(lens) ==
    IF lens = <<>> THEN 0 ELSE 4 + CeilDiv4(Head(lens)) + SumTokens(Tail(lens))

\* build actualUsage: all text lengths added up, then one division
SimpleEstimate(req) == CeilDiv4(req.system + SumLen(req.messages))

\* build cumulativeUsage: per-text estimates, 4 per message, 10 of overhead
estimateRequestTokens(req) ==
    (IF req.system > 0 THEN CeilDiv4(req.system) ELSE 0) + SumTokens(req.messages) + 10

EstimatedInputTokens(b, req) ==
    IF b = "actualUsage" THEN SimpleEstimate(req) ELSE estimateRequestTokens(req)

\* requests: length of the system text (0: none) and of each message's text
Requests == {[system |-> 3, messages |-> <<5, 2>>]}

----------------------------------------------------------------------------
(* StreamingToolCallState *)

VARIABLES
    build,                        \* which build of the class runs the session
    toolCalls,                    \* Map index -> AccumulatingToolCall, in insertion order
    hasEmittedMessageStart,
    hasEmittedContentBlockStart,
    contentBlockIndex,
    actualUsage,                  \* <<>> is null (build actualUsage)
    cumulativeUsage,              \* build cumulativeUsage
    accumulatedContent,           \* its length (build cumulativeUsage)
    totalChunksSeen,              \* build cumulativeUsage
    estimatedInputTokens

NewToolCall(i) ==
    [index |-> i, hasId |-> FALSE, hasName |-> FALSE, arguments |-> <<>>,
     hasStartedStreaming |-> FALSE, isComplete |-> FALSE]

HasToolCall(tcs, i) == \E n \in 1 .. Len(tcs) : tcs[n].index = i
PosOf(tcs, i) == CHOOSE n \in 1 .. Len(tcs) : tcs[n].index = i

\* index + (this.hasEmittedContentBlockStart ? 1 : 0)
ToolOutputIndex(index, hasText) == index + (IF hasText THEN 1 ELSE 0)

\* !toolCall.hasStartedStreaming && toolCall.name && toolCall.id
StartsToolBlock(tc) == ~tc.hasStartedStreaming /\ tc.hasName /\ tc.hasId

\* toolCall.hasStartedStreaming && toolCallDelta.function?.arguments
EmitsJsonDelta(tc, d) == tc.hasStartedStreaming /\ d.arguments # <<>>

\* = instead of +=
AppendArgumentsOverwrite(args, fragment) == fragment

\* toolCall.arguments += toolCallDelta.function.arguments
AppendArguments(args, fragment) == args \o fragment

\* s is the state of the class; the result is the new state and the events
processToolCallDelta(s, d) ==
    LET index == d.index
        tcs0 == IF HasToolCall(s.toolCalls, index) THEN s.toolCalls
                ELSE Append(s.toolCalls, NewToolCall(index))
        n == PosOf(tcs0, index)
        tc1 == [tcs0[n] EXCEPT !.hasId = @ \/ d.id,
                               !.hasName = @ \/ d.name,
                               !.arguments = AppendArguments(@, d.arguments)]
        starts == StartsToolBlock(tc1)
        out == ToolOutputIndex(index, s.hasEmittedContentBlockStart)
        tc2 == [tc1 EXCEPT !.hasStartedStreaming = @ \/ starts]
        delta == EmitsJsonDelta(tc2, d)
        acc == IF delta /\ s.build = "cumulativeUsage"
               THEN s.accumulatedContent + Len(d.arguments) ELSE s.accumulatedContent
    IN  [state |-> [s EXCEPT !.toolCalls = [tcs0 EXCEPT ![n] = tc2],
                             !.accumulatedContent = acc,
                             !.cumulativeUsage =
                                 IF delta /\ s.build = "cumulativeUsage"
                                 THEN [@ EXCEPT !.output_tokens = CeilDiv4(acc)] ELSE @],
         events |-> (IF starts THEN <<ToolBlockStart(out, index)>> ELSE <<>>)
                    \o (IF delta THEN <<ToolDelta(out, index, d.arguments)>> ELSE <<>>)]

RECURSIVE processToolCalls(_, _)
processToolCalls(s, deltas) ==
    IF deltas = <<>> THEN [state |-> s, events |-> <<>>]
    ELSE LET r1 == processToolCallDelta(s, Head(deltas))
             r2 == processToolCalls(r1.state, Tail(deltas))
         IN  [state |-> r2.state, events |-> r1.events \o r2.events]

translateFinishReason(reason) ==
    CASE reason = "stop" -> "end_turn"
      [] reason = "length" -> "max_tokens"
      [] reason = "tool_calls" -> "tool_use"
      [] OTHER -> "end_turn"

\* const finalUsage = this.actualUsage || { estimatedInputTokens, 0 }
FinalUsage(s) ==
    IF s.build = "actualUsage"
    THEN IF s.actualUsage # <<>> THEN s.actualUsage[1]
         ELSE Usage(s.estimatedInputTokens, 0)
    ELSE s.cumulativeUsage

\* the stops of the tool calls that are started and not complete, in Map order
RECURSIVE ToolStops(_, _)
ToolStops(tcs, hasText) ==
    IF tcs = <<>> THEN <<>>
    ELSE (IF Head(tcs).hasStartedStreaming /\ ~Head(tcs).isComplete
          THEN <<BlockStop(ToolOutputIndex(Head(tcs).index, hasText), Head(tcs).index)>>
          ELSE <<>>) \o ToolStops(Tail(tcs), hasText)

CompleteToolCalls(tcs) ==
    [n \in 1 .. Len(tcs) |->
        [tcs[n] EXCEPT !.isComplete = @ \/ tcs[n].hasStartedStreaming]]

\* the text block is never closed
TextStopMissing(s) == <<>>

TextStop(s) ==
    IF s.hasEmittedContentBlockStart
    THEN <<BlockStop(s.contentBlockIndex, NoIndex)>> ELSE <<>>

CompletionEvents(s, finishReason) ==
    TextStop(s)
    \o ToolStops(s.toolCalls, s.hasEmittedContentBlockStart)
    \o <<MessageDeltaEvent(translateFinishReason(finishReason), FinalUsage(s))>>
    \o <<MessageStopEvent>>

handleCompletion(s, finishReason) ==
    [state |-> [s EXCEPT !.toolCalls = CompleteToolCalls(@)],
     events |-> CompletionEvents(s, finishReason)]

createMessageStartEvent(s) ==
    MessageStartEvent(Usage(IF s.build = "actualUsage" THEN s.estimatedInputTokens ELSE 0, 0))

\* storing chunk.usage, the last step of processChunk
StoreUsage(s, usage) ==
    IF usage = <<>> THEN s
    ELSE IF s.build = "actualUsage"
         THEN [s EXCEPT !.actualUsage =
                  <<Usage(usage[1].prompt_tokens, usage[1].completion_tokens)>>]
         ELSE [s EXCEPT !.cumulativeUsage =
                  Usage(IF usage[1].prompt_tokens # 0 THEN usage[1].prompt_tokens
                        ELSE s.estimatedInputTokens,
                        usage[1].completion_tokens)]

\* a message_start for every chunk with a role marker
StartsMessageOnEveryRole(s, chunk) == chunk.role

\* if (!this.hasEmittedMessageStart && delta?.role)
StartsMessage(s, chunk) == ~s.hasEmittedMessageStart /\ chunk.role

processChunk(s, chunk) ==
    LET \* message start
        startEvents == IF StartsMessage(s, chunk)
                       THEN <<createMessageStartEvent(s)>> ELSE <<>>
        s1 == [s EXCEPT !.totalChunksSeen =
                            IF s.build = "cumulativeUsage" THEN @ + 1 ELSE @,
                        !.hasEmittedMessageStart = @ \/ chunk.role]
        \* text
        hasContent == chunk.content # <<>>
        textEvents ==
            IF hasContent
            THEN (IF ~s1.hasEmittedContentBlockStart
                  THEN <<TextBlockStart(s1.contentBlockIndex)>> ELSE <<>>)
                 \o <<TextDelta(s1.contentBlockIndex, chunk.content)>>
            ELSE <<>>
        acc == IF hasContent /\ s1.build = "cumulativeUsage"
               THEN s1.accumulatedContent + Len(chunk.content)
               ELSE s1.accumulatedContent
        s2 == [s1 EXCEPT !.hasEmittedContentBlockStart = @ \/ hasContent,
                         !.accumulatedContent = acc,
                         !.cumulativeUsage =
                             IF hasContent /\ s1.build = "cumulativeUsage"
                             THEN [@ EXCEPT !.output_tokens = CeilDiv4(acc)] ELSE @]
        \* tool calls
        r3 == processToolCalls(s2, chunk.tool_calls)
        \* completion
        r4 == IF chunk.finish_reason # ""
              THEN handleCompletion(r3.state, chunk.finish_reason)
              ELSE [state |-> r3.state, events |-> <<>>]
        \* usage
        s5 == StoreUsage(r4.state, chunk.usage)
    IN  [state |-> s5,
         events |-> startEvents \o textEvents \o r3.events \o r4.events]

\* the state processChunk leaves behind when it throws: nothing is done when
\* the chunk is null; the completion and the usage are not reached when the
\* loop over delta.tool_calls throws
processChunkThrows(s, m) ==
    IF m.throwsAt = "chunk" THEN s
    ELSE processChunk(s, [m.chunk EXCEPT !.finish_reason = "", !.usage = <<>>]).state

getAccumulatedArguments(tcs, i) ==
    IF HasToolCall(tcs, i) THEN tcs[PosOf(tcs, i)].arguments ELSE <<>>

----------------------------------------------------------------------------
(* ToolIdMapper                                                             *)
(*                                                                          *)
(* The repository holds two builds of the class: the one of                 *)
(* services/tool-id-mapper.ts, which draws fresh ids with randomBytes, and  *)
(* one that numbers them with idCounter. mapperBuild says which one runs.   *)
(*                                                                          *)
(* An id is the sequence of its tokens: a token is a maximal run of letters *)
(* and digits, or one character that is neither. Two ids are the same       *)
(* string exactly when they are the same sequence of tokens. A run of       *)
(* letters and digits is either all digits or starts with a letter.         *)

MapperBuilds == {"uuid", "counter"}
Sessions == {1, 2}

DigitTokens == {ToString(n) : n \in 0 .. 9}
\* the one-character tokens; only the underscore is matched by [a-zA-Z0-9_]
Separators == {".", ":", "-", "_"}

\* ids the caller knows a tool use by
LocalIds ==
    {<<"functions", ".", "Glob", ":", "1">>,
     <<"0">>,
     <<"tool", ":", "0">>,
     <<"toolu", "_", "1">>,
     <<"a", "-", "b">>}

\* ids the upstream knows a tool call by, as handed to mapIds and mapOpenAIId
ProviderIds == {<<"call", "_", "x">>, <<"call", "_", "tool", "_", "0">>}

\* pairs a caller gives to mapIds
GivenMappings ==
    {<<<<"toolu", "_", "1">>, <<"call", "_", "x">>>>,
     <<<<"0">>, <<"call", "_", "x">>>>}

\* ids given to mapAnthropicId, which does not look at the form of an id
MappedIds == {<<"toolu", "_", "1">>, <<"0">>}

ToolNames == {<<"Glob">>}

\* values of randomBytes(n).toString('hex') and of Date.now()
Randoms == {"p", "q"}

\* Map.set and Map.get; <<>> is the empty Map and also undefined
Put(f, k, v) == [x \in (DOMAIN f) \cup {k} |-> IF x = k THEN v ELSE f[x]]
Get(f, k) == IF k \in DOMAIN f THEN <<f[k]>> ELSE <<>>
\* a looked-up string that is neither undefined nor empty
Truthy(g) == g # <<>> /\ g[1] # <<>>

NewMapper == [anthropicToOpenAI |-> <<>>, openAIToAnthropic |-> <<>>, idCounter |-> 0]

\* the warnings of one build change nothing: both maps are overwritten
mapIds(m, anthropicId, openAIId) ==
    [m EXCEPT !.anthropicToOpenAI = Put(@, anthropicId, openAIId),
              !.openAIToAnthropic = Put(@, openAIId, anthropicId)]

getOpenAIId(m, anthropicId) == Get(m.anthropicToOpenAI, anthropicId)
getAnthropicId(m, openAIId) == Get(m.openAIToAnthropic, openAIId)

\* result: the id and the mapper (the counter may have moved)
generateOpenAIId(b, m, toolName, rnd) ==
    IF b = "uuid" THEN [id |-> <<"call", "_", rnd>>, mapper |-> m]
    ELSE IF toolName # <<>>
         THEN [id |-> <<"functions", ".">> \o toolName \o <<":", ToString(m.idCounter)>>,
               mapper |-> [m EXCEPT !.idCounter = @ + 1]]
         ELSE [id |-> <<"call", "_", rnd, "_", ToString(m.idCounter + 1)>>,
               mapper |-> [m EXCEPT !.idCounter = @ + 1]]

\* a new id is generated although the id is mapped already
mapAnthropicIdAlwaysNew(b, m, anthropicId, toolName, rnd) ==
    LET g == generateOpenAIId(b, m, toolName, rnd)
    IN  [result |-> g.id, mapper |-> mapIds(g.mapper, anthropicId, g.id)]

mapAnthropicId(b, m, anthropicId, toolName, rnd) ==
    LET existingOpenAIId == getOpenAIId(m, anthropicId)
        g == generateOpenAIId(b, m, toolName, rnd)
    IN  IF Truthy(existingOpenAIId)
        THEN [result |-> existingOpenAIId[1], mapper |-> m]
        ELSE [result |-> g.id, mapper |-> mapIds(g.mapper, anthropicId, g.id)]

\* the input is mapped to a marker value on a miss
mapOpenAIIdStrict(m, openAIId) ==
    LET anthropicId == getAnthropicId(m, openAIId)
    IN  IF ~Truthy(anthropicId) THEN <<"unknown">> ELSE anthropicId[1]

mapOpenAIId(m, openAIId) ==
    LET anthropicId == getAnthropicId(m, openAIId)
    IN  IF ~Truthy(anthropicId) THEN openAIId ELSE anthropicId[1]

\* position of the first colon, 0 when there is none
FirstColon(id) ==
    IF \E n \in 1 .. Len(id) : id[n] = ":"
    THEN CHOOSE n \in 1 .. Len(id) : id[n] = ":" /\ \A k \in 1 .. n - 1 : id[k] # ":"
    ELSE 0

\* anthropicId.split(':'), its first two parts
SplitFirst(id) ==
    IF FirstColon(id) = 0 THEN id ELSE SubSeq(id, 1, FirstColon(id) - 1)
SplitSecond(id) ==
    IF FirstColon(id) = 0 THEN <<>>
    ELSE SplitFirst(SubSeq(id, FirstColon(id) + 1, Len(id)))

StartsWith(id, prefix) ==
    Len(id) >= Len(prefix) /\ SubSeq(id, 1, Len(prefix)) = prefix

\* anthropicId.match(/functions\.([^:]+):?(\d*)/) for an id that starts with
\* "functions.": <<>> when there is no match, else <<toolName, index>>
MatchFunctions(id) ==
    LET rest == SubSeq(id, 3, Len(id))
        toolName == SplitFirst(rest)
        after == SubSeq(rest, Len(toolName) + 2, Len(rest))
        index == IF after # <<>> /\ after[1] \in DigitTokens THEN <<after[1]>> ELSE <<>>
    IN  IF toolName = <<>> THEN <<>> ELSE <<toolName, index>>

\* index || '0'
OrZero(index) == IF index = <<>> THEN <<"0">> ELSE index

\* /^\d+$/.test(anthropicId)
AllDigits(id) == Len(id) = 1 /\ id[1] \in DigitTokens

\* anthropicId.replace(/[^a-zA-Z0-9_]/g, '_')
Sanitize(id) ==
    [n \in 1 .. Len(id) |-> IF id[n] \in Separators \ {"_"} THEN "_" ELSE id[n]]

generateOpenAICompatibleId(b, m, anthropicId, rnd) ==
    LET isFunctions == StartsWith(anthropicId, <<"functions", ".">>)
        match == IF isFunctions THEN MatchFunctions(anthropicId) ELSE <<>>
        hasColon == FirstColon(anthropicId) # 0
        toolName == SplitFirst(anthropicId)
        index == OrZero(SplitSecond(anthropicId))
        isToolu == StartsWith(anthropicId, <<"toolu", "_">>)
    IN  IF b = "uuid"
        THEN [mapper |-> m,
              id |-> IF match # <<>>
                     THEN <<"call", "_", "func", "_">> \o match[1] \o <<"_">> \o OrZero(match[2])
                     ELSE IF hasColon
                     THEN <<"call", "_">> \o toolName \o <<"_">> \o index
                     ELSE IF AllDigits(anthropicId)
                     THEN <<"call", "_", "tool", "_">> \o anthropicId
                     ELSE IF isToolu
                     THEN <<"call", "_">> \o anthropicId
                     ELSE <<"call", "_">> \o Sanitize(anthropicId) \o <<"_", rnd>>]
        ELSE IF isFunctions THEN [mapper |-> m, id |-> anthropicId]
        ELSE IF hasColon
        THEN [mapper |-> m, id |-> <<"functions", ".">> \o toolName \o <<":">> \o index]
        ELSE IF AllDigits(anthropicId)
        THEN [mapper |-> m, id |-> <<"functions", ".", "tool", ":">> \o anthropicId]
        ELSE IF isToolu
        THEN [mapper |-> m, id |-> <<"functions", ".">> \o anthropicId \o <<":", "0">>]
        ELSE [mapper |-> [m EXCEPT !.idCounter = @ + 1],
              id |-> <<"functions", ".">> \o Sanitize(anthropicId)
                     \o <<":", ToString(m.idCounter)>>]

getOrCreateOpenAIId(b, m, anthropicId, rnd) ==
    LET existingOpenAIId == getOpenAIId(m, anthropicId)
        g == generateOpenAICompatibleId(b, m, anthropicId, rnd)
    IN  IF Truthy(existingOpenAIId)
        THEN [openaiId |-> existingOpenAIId[1], wasFound |-> TRUE, mapper |-> m]
        ELSE [openaiId |-> g.id, wasFound |-> FALSE,
              mapper |-> mapIds(g.mapper, anthropicId, g.id)]

\* only the forward map is emptied
clearForwardOnly(b, m) == [m EXCEPT !.anthropicToOpenAI = <<>>]

clear(b, m) ==
    [anthropicToOpenAI |-> <<>>, openAIToAnthropic |-> <<>>,
     idCounter |-> IF b = "counter" THEN 0 ELSE m.idCounter]

\* the id lists as sets: the order of the keys is left out
getStats(m) ==
    [mappingCount |-> Cardinality(DOMAIN m.anthropicToOpenAI),
     anthropicIds |-> DOMAIN m.anthropicToOpenAI,
     openAIIds |-> DOMAIN m.openAIToAnthropic]

VARIABLES
    mapperBuild,   \* which build of ToolIdMapper the sessions run
    mappers,       \* per session, its ToolIdMapper
    returned,      \* per session and local id, the provider id handed out for it
    last           \* the last call: its number, the sessions it was made on, what
                   \* it returned, whether its local id had been handed a provider
                   \* id before, and how many mappings there were before it

mapperVars == <<mapperBuild, mappers, returned, last>>

\* a call: the method, the local id, the tool name and the provider id given
Call(op, a, t, o) == [op |-> op, anthropicId |-> a, toolName |-> t, openAIId |-> o]

NoCall == Call("none", <<>>, <<>>, <<>>)

\* the value drawn by call number n: r is any of Randoms, and no two calls of
\* a session draw the same value
Draw(r, n) == r \o ToString(n)

\* what a call returns (<<>> for void) and the mapper it leaves
Invoke(b, m, c, rnd) ==
    CASE c.op = "mapIds" ->
           [mapper |-> mapIds(m, c.anthropicId, c.openAIId), result |-> <<>>]
      [] c.op = "mapAnthropicId" ->
           mapAnthropicId(b, m, c.anthropicId, c.toolName, rnd)
      [] c.op = "getOrCreateOpenAIId" ->
           LET r == getOrCreateOpenAIId(b, m, c.anthropicId, rnd)
           IN  [mapper |-> r.mapper, result |-> r.openaiId]
      [] c.op = "mapOpenAIId" ->
           [mapper |-> m, result |-> mapOpenAIId(m, c.openAIId)]
      [] c.op = "clear" ->
           [mapper |-> clear(b, m), result |-> <<>>]
      [] c.op = "getStats" ->
           [mapper |-> m, result |-> getStats(m)]

\* the provider id mapAnthropicId or getOrCreateOpenAIId returned for each
\* local id since the maps were last cleared or the id was given to mapIds
Returned(ret, c, result) ==
    CASE c.op \in {"mapAnthropicId", "getOrCreateOpenAIId"} ->
           [ret EXCEPT ![c.anthropicId] = <<result>>]
      [] c.op = "mapIds" -> [ret EXCEPT ![c.anthropicId] = <<>>]
      [] c.op = "clear" -> [a \in LocalIds |-> <<>>]
      [] OTHER -> ret

IsCorrelate(c) == c.op \in {"mapAnthropicId", "getOrCreateOpenAIId"}

NewMappers(b) ==
    /\ mapperBuild = b
    /\ mappers = [s \in Sessions |-> NewMapper]
    /\ returned = [s \in Sessions |-> [a \in LocalIds |-> <<>>]]
    /\ last = [n |-> 0, on |-> {}, call |-> NoCall,
               results |-> [s \in Sessions |-> <<>>],
               again |-> [s \in Sessions |-> FALSE],
               size |-> [s \in Sessions |-> 0]]

----------------------------------------------------------------------------
(* The decoder of tool-call arguments (TranslationService)                  *)
(*                                                                          *)
(* A text is the sequence of its characters. A decoded value is a record    *)
(* of its kind and its body: the members of an object (pairs of key and     *)
(* value, in the order of the keys), the items of an array, the characters  *)
(* of a string, the digits of a number.                                     *)

MaxPieces == 3

Quote == "\""
Backslash == "\\"

Obj(members) == [kind |-> "object", body |-> members]
Arr(items) == [kind |-> "array", body |-> items]
Str(chars) == [kind |-> "string", body |-> chars]
Num(digits) == [kind |-> "number", body |-> digits]
Null == [kind |-> "null", body |-> <<>>]

\* the outcome of parsing from a position: the value and the position after
\* it, or the position of the character that is not expected
Parsed(v, next) == [ok |-> TRUE, val |-> v, next |-> next]
Unexpected(at) == [ok |-> FALSE, val |-> Null, next |-> at]

RECURSIVE SkipWs(_, _)
SkipWs(s, i) == IF i <= Len(s) /\ s[i] = " " THEN SkipWs(s, i + 1) ELSE i

\* a string literal, from the character after its opening quote
RECURSIVE StringBody(_, _, _)
StringBody(s, j, acc) ==
    IF j > Len(s) THEN Unexpected(j)
    ELSE IF s[j] = Quote THEN Parsed(Str(acc), j + 1)
    ELSE IF s[j] = Backslash
         THEN IF j + 1 <= Len(s) /\ s[j + 1] \in {Quote, Backslash}
              THEN StringBody(s, j + 2, Append(acc, s[j + 1]))
              ELSE Unexpected(j + 1)
         ELSE StringBody(s, j + 1, Append(acc, s[j]))

RECURSIVE DigitsEnd(_, _)
DigitsEnd(s, j) == IF j <= Len(s) /\ s[j] \in DigitTokens THEN DigitsEnd(s, j + 1) ELSE j

\* a key given twice keeps its place and takes the later value
AddMember(members, key, v) ==
    IF \E n \in 1 .. Len(members) : members[n][1] = key
    THEN [n \in 1 .. Len(members) |->
             IF members[n][1] = key THEN <<key, v>> ELSE members[n]]
    ELSE Append(members, <<key, v>>)

RECURSIVE ParseValue(_, _)
RECURSIVE ParseMembers(_, _, _)
RECURSIVE ParseItems(_, _, _)

\* the members of an object, from the first character of a member
ParseMembers(s, k, acc) ==
    IF k > Len(s) \/ s[k] # Quote THEN Unexpected(k)
    ELSE LET key == StringBody(s, k + 1, <<>>)
             c == SkipWs(s, key.next)
             v == ParseValue(s, c + 1)
             e == SkipWs(s, v.next)
         IN  IF ~key.ok THEN key
             ELSE IF c > Len(s) \/ s[c] # ":" THEN Unexpected(c)
             ELSE IF ~v.ok THEN v
             ELSE IF e > Len(s) THEN Unexpected(e)
             ELSE IF s[e] = "}"
                  THEN Parsed(Obj(AddMember(acc, key.val.body, v.val)), e + 1)
             ELSE IF s[e] = ","
                  THEN ParseMembers(s, SkipWs(s, e + 1), AddMember(acc, key.val.body, v.val))
             ELSE Unexpected(e)

\* the items of an array, from the first character of an item
ParseItems(s, k, acc) ==
    LET v == ParseValue(s, k)
        e == SkipWs(s, v.next)
    IN  IF ~v.ok THEN v
        ELSE IF e > Len(s) THEN Unexpected(e)
        ELSE IF s[e] = "]" THEN Parsed(Arr(Append(acc, v.val)), e + 1)
        ELSE IF s[e] = "," THEN ParseItems(s, e + 1, Append(acc, v.val))
        ELSE Unexpected(e)

ParseValue(s, i) ==
    LET j == SkipWs(s, i)
    IN  IF j > Len(s) THEN Unexpected(j)
        ELSE IF s[j] = "{"
             THEN IF SkipWs(s, j + 1) <= Len(s) /\ s[SkipWs(s, j + 1)] = "}"
                  THEN Parsed(Obj(<<>>), SkipWs(s, j + 1) + 1)
                  ELSE ParseMembers(s, SkipWs(s, j + 1), <<>>)
        ELSE IF s[j] = "["
             THEN IF SkipWs(s, j + 1) <= Len(s) /\ s[SkipWs(s, j + 1)] = "]"
                  THEN Parsed(Arr(<<>>), SkipWs(s, j + 1) + 1)
                  ELSE ParseItems(s, j + 1, <<>>)
        ELSE IF s[j] = Quote THEN StringBody(s, j + 1, <<>>)
        ELSE IF s[j] \in DigitTokens
             THEN Parsed(Num(SubSeq(s, j, DigitsEnd(s, j) - 1)), DigitsEnd(s, j))
        ELSE IF j + 3 <= Len(s) /\ SubSeq(s, j, j + 3) = <<"n", "u", "l", "l">>
             THEN Parsed(Null, j + 4)
        ELSE Unexpected(j)

\* JSON.parse: one value and nothing but white space around it
JSONparse(s) ==
    LET v == ParseValue(s, 1)
        e == SkipWs(s, v.next)
    IN  IF ~v.ok THEN v
        ELSE IF e <= Len(s) THEN Unexpected(e)
        ELSE v

\* the message of the SyntaxError JSON.parse throws
ErrorMessage(p) == Str(<<"Unexpected token at position", ToString(p.next)>>)

\* String.prototype.trim
RECURSIVE TrimEnd(_)
TrimEnd(s) == IF s # <<>> /\ s[Len(s)] = " " THEN TrimEnd(SubSeq(s, 1, Len(s) - 1)) ELSE s
Trim(s) == TrimEnd(SubSeq(s, SkipWs(s, 1), Len(s)))

\* braces are counted inside string literals too
CountsBraceAlways(inString) == TRUE

\* if (!inString)
CountsBrace(inString) == ~inString

\* the loop of parseMultipleJSONObjects from character i on; st is the state
\* of the loop, threw says that JSON.parse of a piece threw
RECURSIVE ScanFrom(_, _, _)
ScanFrom(s, i, st) ==
    IF i > Len(s) \/ st.threw THEN st
    ELSE LET char == s[i]
         IN  IF st.escapeNext THEN ScanFrom(s, i + 1, [st EXCEPT !.escapeNext = FALSE])
             ELSE IF char = Backslash
                  THEN ScanFrom(s, i + 1, [st EXCEPT !.escapeNext = TRUE])
             ELSE IF char = Quote
                  THEN ScanFrom(s, i + 1, [st EXCEPT !.inString = ~@])
             ELSE IF CountsBrace(st.inString) /\ char = "{"
                  THEN ScanFrom(s, i + 1, [st EXCEPT !.braceCount = @ + 1])
             ELSE IF CountsBrace(st.inString) /\ char = "}"
                  THEN IF st.braceCount - 1 = 0
                       THEN LET objStr == Trim(SubSeq(s, st.start, i))
                                p == JSONparse(objStr)
                            IN  IF objStr = <<>>
                                THEN ScanFrom(s, i + 1, [st EXCEPT !.braceCount = 0,
                                                                   !.start = i + 1])
                                ELSE IF p.ok
                                THEN ScanFrom(s, i + 1,
                                              [st EXCEPT !.braceCount = 0, !.start = i + 1,
                                                         !.objects = Append(@, p.val)])
                                ELSE [st EXCEPT !.threw = TRUE]
                       ELSE ScanFrom(s, i + 1, [st EXCEPT !.braceCount = @ - 1])
             ELSE ScanFrom(s, i + 1, st)

\* the result, or threw when JSON.parse of a piece threw
parseMultipleJSONObjects(jsonString) ==
    LET st == ScanFrom(jsonString, 1,
                       [objects |-> <<>>, braceCount |-> 0, start |-> 1,
                        inString |-> FALSE, escapeNext |-> FALSE, threw |-> FALSE])
    IN  [threw |-> st.threw,
         value |-> IF Len(st.objects) = 1 THEN st.objects[1] ELSE Arr(st.objects)]

\* { raw_arguments: argumentsString, parse_error: error.message }
RawArguments(argumentsString, message) ==
    Obj(<<<<<<"raw_arguments">>, Str(argumentsString)>>, <<<<"parse_error">>, message>>>>)

safeParseToolArguments(argumentsString) ==
    LET strict == JSONparse(argumentsString)
        multiple == parseMultipleJSONObjects(argumentsString)
    IN  IF strict.ok THEN strict.val
        ELSE IF ~multiple.threw THEN multiple.value
        ELSE RawArguments(argumentsString, ErrorMessage(strict))

\* the tool_use block openAIToAnthropic makes of one tool call
ToolUseBlock(toolCall) ==
    [type |-> "tool_use", id |-> toolCall.id, name |-> toolCall.name,
     input |-> safeParseToolArguments(toolCall.arguments)]

(* Argument texts: pieces put one after the other. The pieces that are one *)
(* well-formed object come with the object they stand for.                  *)

ObjectA1 == Obj(<<<<<<"a">>, Num(<<"1">>)>>>>)

ObjectPieces ==
    {[text |-> <<"{", Quote, "a", Quote, ":", "1", "}">>, value |-> <<ObjectA1>>],
     [text |-> <<"{", Quote, "a", Quote, ":", Quote, "}", Quote, "}">>,
      value |-> <<Obj(<<<<<<"a">>, Str(<<"}">>)>>>>)>>],
     [text |-> <<"{", Quote, "a", Quote, ":", Quote, Backslash, Quote, "{", Quote, "}">>,
      value |-> <<Obj(<<<<<<"a">>, Str(<<Quote, "{">>)>>>>)>>],
     [text |-> <<"{", Quote, "a", Quote, ":", " ", "{", Quote, "a", Quote, ":", "1", "}", "}">>,
      value |-> <<Obj(<<<<<<"a">>, ObjectA1>>>>)>>],
     [text |-> <<"{", "}">>, value |-> <<Obj(<<>>)>>]}

\* white space, for which no value stands
Blank == [text |-> <<" ">>, value |-> <<>>]

\* a brace-balanced text that is no object, an open brace, a bare word, a
\* number, an array, null
OtherPieces ==
    {[text |-> t, value |-> <<>>] :
        t \in {<<"{", "a", "}">>, <<"{">>, <<"a">>, <<"1">>, <<"[", "1", "]">>,
               <<"n", "u", "l", "l">>}}

Pieces == ObjectPieces \cup {Blank} \cup OtherPieces

RECURSIVE PieceLists(_)
PieceLists(n) ==
    IF n = 0 THEN {<<>>}
    ELSE PieceLists(n - 1) \cup {Append(l, p) : l \in PieceLists(n - 1), p \in Pieces}

RECURSIVE Text(_)
Text(pieces) == IF pieces = <<>> THEN <<>> ELSE Head(pieces).text \o Text(Tail(pieces))

\* the objects of the object pieces, in the order of the text
RECURSIVE Values(_)
Values(pieces) == IF pieces = <<>> THEN <<>> ELSE Head(pieces).value \o Values(Tail(pieces))

\* names of the function of a tool call, as the upstream gives them
FunctionNames == {<<"f">>, <<"g">>}

VARIABLES
    toolCall,      \* a tool call of the upstream's response, <<>> before there is one
    pieces,        \* the pieces its argument text is made of
    parsedInput,   \* <<what safeParseToolArguments returned>>, <<>> before the call
    content        \* the content blocks of the translated response

decoderVars == <<toolCall, pieces, parsedInput, content>>

NoResponse ==
    /\ toolCall = <<>>
    /\ pieces = <<>>
    /\ parsedInput = <<>>
    /\ content = <<>>

----------------------------------------------------------------------------
(* TranslationService.anthropicToOpenAI: the messages of a request          *)
(*                                                                          *)
(* A content block is a record of its type and of the fields the            *)
(* translation reads: the id (the id of a tool_use block, the tool_use_id   *)
(* of a tool_result block), the name (the tool of a tool_use block, the     *)
(* type of the source of an image block), and the text (the text of a text  *)
(* block, the input of a tool_use block, the content of a tool_result       *)
(* block, the data or the url of an image). structured says that the        *)
(* content of a tool_result block is a list of blocks and not a string.     *)

Block(type, id, name, text, structured) ==
    [type |-> type, id |-> id, name |-> name, text |-> text, structured |-> structured]

TextBlock(text) == Block("text", "", "", text, FALSE)
ImageBlock == Block("image", "", "base64", <<"data">>, FALSE)
ImageUrlBlock == Block("image", "", "url", <<"http">>, FALSE)
ToolUse(id, name) == Block("tool_use", id, name, <<"input">>, TRUE)
ToolResult(id, structured) == Block("tool_result", id, "", <<"out">>, structured)

\* a message of the request: its content is a string or a list of blocks
Message(role, isString, text, blocks) ==
    [role |-> role, isString |-> isString, text |-> text, blocks |-> blocks]

\* a message of the upstream request
OpenAIMessage(role, c, tool_calls, tool_call_id) ==
    [role |-> role, content |-> c, tool_calls |-> tool_calls,
     tool_call_id |-> tool_call_id]

\* contents of an upstream message: a string, null, or a list of parts
StringContent(text) == [kind |-> "string", body |-> text]
NullContent == [kind |-> "null", body |-> <<>>]
PartsContent(parts) == [kind |-> "parts", body |-> parts]

\* JSON.stringify of a value that is not a string
Stringify(text) == <<"json">> \o text

RECURSIVE SelectBlocks(_, _)
SelectBlocks(blocks, types) ==
    IF blocks = <<>> THEN <<>>
    ELSE (IF Head(blocks).type \in types THEN <<Head(blocks)>> ELSE <<>>)
             \o SelectBlocks(Tail(blocks), types)

\* the blocks that message.content.forEach pushes to textAndImageContent:
\* text blocks, and image blocks whose source is of type base64
RECURSIVE TextAndImageContent(_)
TextAndImageContent(blocks) ==
    IF blocks = <<>> THEN <<>>
    ELSE (IF Head(blocks).type = "text"
             \/ (Head(blocks).type = "image" /\ Head(blocks).name = "base64")
          THEN <<Head(blocks)>> ELSE <<>>)
         \o TextAndImageContent(Tail(blocks))

\* texts.join('\n')
RECURSIVE JoinLines(_)
JoinLines(texts) ==
    IF texts = <<>> THEN <<>>
    ELSE IF Len(texts) = 1 THEN texts[1]
    ELSE texts[1] \o <<"\n">> \o JoinLines(Tail(texts))

\* a tool_use block as an entry of tool_calls, with a derived id
ToolCallDerivedId(toolUse) ==
    [id |-> "call_" \o toolUse.id, name |-> toolUse.name, arguments |-> Stringify(toolUse.text)]

\* a tool_use block as an entry of tool_calls
ToolCallOf(toolUse) ==
    [id |-> toolUse.id, name |-> toolUse.name, arguments |-> Stringify(toolUse.text)]

\* a tool_result block as a message of role tool
ToolMessage(toolResult) ==
    OpenAIMessage("tool",
                  StringContent(IF toolResult.structured THEN Stringify(toolResult.text)
                                ELSE toolResult.text),
                  <<>>, toolResult.id)

\* no message for an assistant turn without text and without tool calls
AssistantMessageUnlessEmpty(textContent, calls) ==
    IF textContent = <<>> /\ calls = <<>> THEN <<>>
    ELSE <<OpenAIMessage("assistant",
                         IF textContent = <<>> THEN NullContent
                         ELSE StringContent(textContent),
                         calls, "")>>

\* the results.push of the assistant branch: content: textContent || null
\* with tool_calls, content: textContent without
AssistantMessage(textContent, calls) ==
    IF Len(calls) > 0
    THEN <<OpenAIMessage("assistant",
                         IF textContent = <<>> THEN NullContent
                         ELSE StringContent(textContent),
                         calls, "")>>
    ELSE <<OpenAIMessage("assistant", StringContent(textContent), <<>>, "")>>

translateAnthropicMessage(message) ==
    IF message.isString
    THEN <<OpenAIMessage(IF message.role = "assistant" THEN "assistant" ELSE "user",
                         StringContent(message.text), <<>>, "")>>
    ELSE LET textAndImageContent == TextAndImageContent(message.blocks)
             toolUseBlocks == SelectBlocks(message.blocks, {"tool_use"})
             toolResultBlocks == SelectBlocks(message.blocks, {"tool_result"})
         IN  IF message.role = "assistant"
             THEN LET texts == SelectBlocks(textAndImageContent, {"text"})
                      textContent == JoinLines([n \in 1 .. Len(texts) |-> texts[n].text])
                      calls == [n \in 1 .. Len(toolUseBlocks) |-> ToolCallOf(toolUseBlocks[n])]
                  IN  AssistantMessage(textContent, calls)
             ELSE (IF Len(textAndImageContent) > 0
                   THEN <<OpenAIMessage("user",
                                        IF Len(textAndImageContent) = 1
                                              /\ textAndImageContent[1].type = "text"
                                        THEN StringContent(textAndImageContent[1].text)
                                        ELSE PartsContent(textAndImageContent),
                                        <<>>, "")>>
                   ELSE <<>>)
                  \o [n \in 1 .. Len(toolResultBlocks) |-> ToolMessage(toolResultBlocks[n])]

\* messages.flatMap(msg => this.translateAnthropicMessage(msg))
RECURSIVE FlatMapMessages(_)
FlatMapMessages(messages) ==
    IF messages = <<>> THEN <<>>
    ELSE translateAnthropicMessage(Head(messages)) \o FlatMapMessages(Tail(messages))

\* the messages of the upstream request: the system text first, if any
openAIMessages(req) ==
    (IF req.system # <<>> THEN <<OpenAIMessage("system", StringContent(req.system), <<>>, "")>>
     ELSE <<>>)
    \o FlatMapMessages(req.messages)

\* the upstream request: its messages and its other fields
CreateParams(model, messages, stream) ==
    [model |-> model, messages |-> messages, stream |-> stream]

anthropicToOpenAI(req) == CreateParams("model", openAIMessages(req), req.stream)

(* Requests: the ids of the tool calls of the conversation, the messages of *)
(* each role (a tool_use block is a block of an assistant message, a        *)
(* tool_result block a block of a user message), and conversations of up    *)
(* to MaxMessages messages with or without a system text.                   *)

MaxMessages == 3

ToolUseIds == {"toolu_1", "toolu_2"}

AssistantMessages ==
    {Message("assistant", TRUE, <<"t">>, <<>>),
     Message("assistant", FALSE, <<>>, <<>>),
     Message("assistant", FALSE, <<>>, <<TextBlock(<<"t">>)>>),
     Message("assistant", FALSE, <<>>, <<ToolUse("toolu_1", "f")>>),
     Message("assistant", FALSE, <<>>, <<TextBlock(<<"t">>), ToolUse("toolu_2", "f")>>),
     Message("assistant", FALSE, <<>>,
             <<ToolUse("toolu_1", "f"), TextBlock(<<"t">>), ToolUse("toolu_2", "g"),
               TextBlock(<<"u">>)>>)}

UserMessages ==
    {Message("user", TRUE, <<"t">>, <<>>),
     Message("user", FALSE, <<>>, <<TextBlock(<<"t">>)>>),
     Message("user", FALSE, <<>>, <<ImageBlock, TextBlock(<<"t">>)>>),
     Message("user", FALSE, <<>>, <<TextBlock(<<"t">>), ImageUrlBlock>>),
     Message("user", FALSE, <<>>, <<ToolResult("toolu_1", FALSE)>>),
     Message("user", FALSE, <<>>, <<ToolResult("toolu_2", TRUE), TextBlock(<<"t">>)>>),
     Message("user", FALSE, <<>>,
             <<ToolResult("toolu_2", FALSE), TextBlock(<<"t">>), ToolResult("toolu_1", TRUE)>>)}

Messages == AssistantMessages \cup UserMessages

RECURSIVE MessageLists(_)
MessageLists(n) ==
    IF n = 0 THEN {<<>>}
    ELSE MessageLists(n - 1)
         \cup {Append(l, m) : l \in {k \in MessageLists(n - 1) : Len(k) = n - 1}, m \in Messages}

\* validateAnthropicRequest: the messages array cannot be empty
AnthropicRequests ==
    {[system |-> s, messages |-> l, stream |-> TRUE] :
        s \in {<<>>, <<"s">>}, l \in MessageLists(MaxMessages) \ {<<>>}}

VARIABLES
    request,        \* <<the request of the client>>, <<>> before there is one
    openAIRequest   \* <<the upstream request>>, <<>> before the translation

translatorVars == <<request, openAIRequest>>

NoRequest ==
    /\ request = <<>>
    /\ openAIRequest = <<>>

----------------------------------------------------------------------------
(* SimpleToolBatcher                                                        *)
(*                                                                          *)
(* An index of a message is its index in request.messages, counted from 0.  *)

Roles == {"system", "user", "assistant", "tool"}

\* messages.filter(msg => msg.role === ...)
RECURSIVE SelectRole(_, _)
SelectRole(messages, roles) ==
    IF messages = <<>> THEN <<>>
    ELSE (IF Head(messages).role \in roles THEN <<Head(messages)>> ELSE <<>>)
             \o SelectRole(Tail(messages), roles)

\* needsBatching with a count of at least one
needsBatchingFromOne(limitToolResults, req) ==
    IF ~limitToolResults THEN FALSE
    ELSE Len(SelectRole(req.messages, {"tool"})) >= 1

needsBatching(limitToolResults, req) ==
    IF ~limitToolResults THEN FALSE
    ELSE LET toolResultCount == Len(SelectRole(req.messages, {"tool"}))
         IN  toolResultCount > 1

RECURSIVE IndicesFrom(_, _)
IndicesFrom(messages, index) ==
    IF messages = <<>> THEN <<>>
    ELSE (IF Head(messages).role = "tool" THEN <<index>> ELSE <<>>)
             \o IndicesFrom(Tail(messages), index + 1)

findToolResultIndices(req) == IndicesFrom(req.messages, 0)

\* the filter keeps the tool messages up to the one of the request
KeepsUpTo(msg, index, toolIndex) ==
    IF msg.role = "tool" THEN index <= toolIndex ELSE TRUE

\* the callback of request.messages.filter
Keeps(msg, index, toolIndex) ==
    IF msg.role = "tool" THEN index = toolIndex ELSE TRUE

RECURSIVE FilterFrom(_, _, _)
FilterFrom(messages, index, toolIndex) ==
    IF messages = <<>> THEN <<>>
    ELSE (IF Keeps(Head(messages), index, toolIndex) THEN <<Head(messages)>> ELSE <<>>)
             \o FilterFrom(Tail(messages), index + 1, toolIndex)

createSingleToolResultRequests(req) ==
    LET toolResultIndices == findToolResultIndices(req)
    IN  IF Len(toolResultIndices) <= 1 THEN <<req>>
        ELSE [j \in 1 .. Len(toolResultIndices) |->
                 [req EXCEPT !.messages = FilterFrom(req.messages, 0, toolResultIndices[j])]]

(* A response of the upstream: its id, its choices and its usage (<<>>      *)
(* when the response has none).                                             *)

MaxResponses == 3

Completion(id, choices, usage) == [id |-> id, choices |-> choices, usage |-> usage]

CompletionUsage(p, c) == [prompt_tokens |-> p, completion_tokens |-> c, total_tokens |-> p + c]

UsageFields == {"prompt_tokens", "completion_tokens", "total_tokens"}

\* response.usage.<field> || 0, added up over the responses that have a usage
RECURSIVE TotalOf(_, _)
TotalOf(responses, field) ==
    IF responses = <<>> THEN 0
    ELSE (IF Head(responses).usage # <<>> THEN Head(responses).usage[1][field] ELSE 0)
         + TotalOf(Tail(responses), field)

\* the base response as it is, with its own usage
combineKeepsBaseUsage(responses) ==
    IF Len(responses) = 0 THEN [threw |-> TRUE, value |-> <<>>]
    ELSE [threw |-> FALSE, value |-> <<responses[Len(responses)]>>]

\* threw: 'No responses to combine'
combineSingleToolResponses(responses) ==
    IF Len(responses) = 0 THEN [threw |-> TRUE, value |-> <<>>]
    ELSE IF Len(responses) = 1 THEN [threw |-> FALSE, value |-> <<responses[1]>>]
    ELSE LET baseResponse == responses[Len(responses)]
         IN  [threw |-> FALSE,
              value |-> <<[baseResponse EXCEPT
                             !.usage = <<[f \in UsageFields |-> TotalOf(responses, f)]>>]>>]

Completions ==
    {Completion("id1", "choices1", <<CompletionUsage(9, 7)>>),
     Completion("id2", "choices2", <<CompletionUsage(5, 0)>>),
     Completion("id3", "choices1", <<CompletionUsage(9, 7)>>),
     Completion("id4", "choices3", <<>>)}

RECURSIVE CompletionLists(_)
CompletionLists(n) ==
    IF n = 0 THEN {<<>>}
    ELSE CompletionLists(n - 1)
         \cup {Append(l, r) : l \in {k \in CompletionLists(n - 1) : Len(k) = n - 1},
                              r \in Completions}

VARIABLES
    shouldBatch,          \* the limitToolResults the batcher was constructed with
    needs,                \* <<what needsBatching returned>>, <<>> before the call
    singleToolRequests,   \* <<what createSingleToolResultRequests returned>>
    responses,            \* <<the responses of the upstream calls>>, <<>> before they are there
    combined              \* <<what combineSingleToolResponses returned>>

simpleBatcherVars == <<shouldBatch, needs, singleToolRequests, responses, combined>>

NewSimpleToolBatcher(limitToolResults) ==
    /\ shouldBatch = limitToolResults
    /\ needs = <<>>
    /\ singleToolRequests = <<>>
    /\ responses = <<>>
    /\ combined = <<>>

----------------------------------------------------------------------------
(* StreamingToolBatcher                                                     *)

\* the eventBuffer of a new batcher, and of resetEventBuffer
resetEventBuffer ==
    [messageStartSent |-> FALSE, bufferedUsage |-> Usage(0, 0), streamCount |-> 0]

\* the events of the tool_calls of a chunk, from the n-th entry on
RECURSIVE BatchToolCallEvents(_, _)
BatchToolCallEvents(tool_calls, n) ==
    IF n > Len(tool_calls) THEN <<>>
    ELSE LET tc == tool_calls[n]
         IN  (IF tc.name THEN <<ToolBlockStart(tc.index, tc.index)>>
              ELSE IF tc.arguments # <<>>
              THEN <<ToolDelta(tc.index, tc.index, tc.arguments)>>
              ELSE <<>>)
             \o BatchToolCallEvents(tool_calls, n + 1)

\* a message_start for every role marker, whatever the stream
SendsMessageStartInEveryStream(eb, chunk, isFirstStream) == chunk.role

\* if (isFirstStream && delta?.role && !this.eventBuffer.messageStartSent)
SendsMessageStart(eb, chunk, isFirstStream) ==
    isFirstStream /\ chunk.role /\ ~eb.messageStartSent

\* processStreamChunk: the eventBuffer after the chunk and the events returned
processStreamChunk(eb, chunk, isFirstStream, isLastStream) ==
    LET sendsStart == SendsMessageStart(eb, chunk, isFirstStream)
        u == IF chunk.usage # <<>>
             THEN Usage(eb.bufferedUsage.input_tokens + chunk.usage[1].prompt_tokens,
                        eb.bufferedUsage.output_tokens + chunk.usage[1].completion_tokens)
             ELSE eb.bufferedUsage
    IN  [buffer |-> [eb EXCEPT !.messageStartSent = @ \/ sendsStart, !.bufferedUsage = u],
         events |->
             (IF sendsStart THEN <<MessageStartEvent(Usage(0, 0))>> ELSE <<>>)
             \o (IF chunk.content # <<>> THEN <<TextDelta(0, chunk.content)>> ELSE <<>>)
             \o BatchToolCallEvents(chunk.tool_calls, 1)]

\* generateFinalEvents
generateFinalEvents(eb) ==
    (IF eb.bufferedUsage.input_tokens > 0 \/ eb.bufferedUsage.output_tokens > 0
     THEN <<MessageDeltaEvent("", eb.bufferedUsage)>>
     ELSE <<>>)
    \o <<MessageStopEvent>>

\* errors of the upstream: the messages isListIndexError looks for, and others
UpstreamErrors == {<<"list index out of range">>, <<"other">>}

isListIndexError(error) == error = <<"list index out of range">>

\* the error event of the catch block of processSequentialStreams
BatchErrorEvent(error) ==
    ErrorEvent((IF isListIndexError(error) THEN <<"Tool result batching failed">>
                ELSE <<"Stream processing failed">>) \o error)

\* what the catch block throws after the event
BatchThrows(error, batchNumber) ==
    IF isListIndexError(error)
    THEN <<"Tool result batching failed on stream", batchNumber>> \o error
    ELSE error

\* the error event of the catch block of processIndividualStream
ChunkErrorEvent == ErrorEvent(<<"Error processing chunk in stream batch">>)

(* Where processSequentialStreams goes on, as the step and the index i of   *)
(* the loop: after the call of the i-th request has resolved, after its     *)
(* stream is exhausted, and after the call or the stream has thrown.        *)
Place(step, i) == [step |-> step, i |-> i]

\* the stream is not consumed: the loop goes on with the next request
AfterResolveNotConsumed(i, n) ==
    IF i + 1 < n THEN Place("create", i + 1) ELSE Place("final", i)

\* yield* this.processIndividualStream(stream, ...)
AfterResolve(i, n) == Place("streaming", i)

\* the loop stops before the last request
AfterStreamSkipsLast(i, n) ==
    IF i + 1 < n - 1 THEN Place("create", i + 1) ELSE Place("final", i)

\* i++, i < singleToolRequests.length
AfterStream(i, n) ==
    IF i + 1 < n THEN Place("create", i + 1) ELSE Place("final", i)

\* the error is swallowed: the loop goes on with the next request
AfterErrorContinues(i, n) ==
    IF i + 1 < n THEN Place("create", i + 1) ELSE Place("final", i)

\* yield [error event]; throw
AfterError(i, n) == Place("yieldedError", i)

\* the chunks of the streams of a batch
BatchChunks ==
    {Chunk(TRUE, <<>>, <<>>, "", <<>>)}
    \cup {Chunk(FALSE, c, <<>>, "", <<>>) : c \in TextFragments}
    \cup {Chunk(FALSE, <<>>, <<ToolCallDelta(0, TRUE, TRUE, <<>>)>>, "", <<>>),
          Chunk(FALSE, <<>>, <<ToolCallDelta(0, FALSE, FALSE, <<"a">>)>>, "", <<>>),
          Chunk(FALSE, <<>>, <<>>, "stop", <<>>)}
    \cup {Chunk(FALSE, <<>>, <<>>, "", <<u>>) : u \in UsageTotals}

\* an upstream call: the state of its stream, whether a chunk of it had a
\* finish reason, and whether a chunk of it had a role marker
UpstreamCall(status, finished) == [status |-> status, finished |-> finished, role |-> FALSE]

\* the requests of the client that are given to processSequentialStreams
BatchConversations ==
    {[system |-> <<>>, messages |-> l, stream |-> TRUE] :
        l \in {<<Message("user", TRUE, <<"t">>, <<>>)>>,
               <<Message("user", FALSE, <<>>, <<ToolResult("toolu_1", FALSE)>>)>>,
               <<Message("user", FALSE, <<>>,
                         <<ToolResult("toolu_2", FALSE), TextBlock(<<"t">>),
                           ToolResult("toolu_1", TRUE)>>)>>,
               <<Message("user", FALSE, <<>>, <<ToolResult("toolu_1", FALSE)>>),
                 Message("user", FALSE, <<>>,
                         <<ToolResult("toolu_2", FALSE), TextBlock(<<"t">>),
                           ToolResult("toolu_1", TRUE)>>)>>}}

VARIABLES
    eventBuffer,    \* the eventBuffer of the batcher
    place,          \* where processSequentialStreams is: Place(step, i)
    calls,          \* the upstream calls made so far, in order
    batchChunks,    \* number of chunks taken from the streams of the batch
    out,            \* the events yielded so far
    outStream,      \* for each of them, the batchNumber of its stream (0: none)
    usageSeen,      \* the usage totals of the chunks so far, added up
    failedPartial,  \* <<batchNumber of the call or stream that failed>>
    thrown          \* <<what processSequentialStreams threw>>

streamingBatcherVars ==
    <<eventBuffer, place, calls, batchChunks, out, outStream, usageSeen, failedPartial, thrown>>

NewStreamingToolBatcher ==
    /\ eventBuffer = resetEventBuffer
    /\ place = Place("idle", 0)
    /\ calls = <<>>
    /\ batchChunks = 0
    /\ out = <<>>
    /\ outStream = <<>>
    /\ usageSeen = Usage(0, 0)
    /\ failedPartial = <<>>
    /\ thrown = <<>>

----------------------------------------------------------------------------
(* The connection of the client *)

VARIABLES
    disconnected    \* the client has closed the connection of the response

clientVars == <<disconnected>>

Connected == disconnected = FALSE

----------------------------------------------------------------------------
(* Two requests streamed at the same time. The route builds one            *)
(* StreamingToolCallState per request (new StreamingToolCallState in the   *)
(* handler), and every field of the class is an instance field.            *)

SessionIds == {1, 2}

\* the chunks the two upstream streams send
SessionChunks ==
    {Chunk(TRUE, <<>>, <<>>, "", <<>>),
     Chunk(TRUE, <<"x">>, <<>>, "", <<>>),
     Chunk(FALSE, <<"x">>, <<>>, "", <<>>),
     Chunk(FALSE, <<>>, <<ToolCallDelta(0, TRUE, TRUE, <<>>)>>, "", <<>>),
     Chunk(FALSE, <<>>, <<ToolCallDelta(0, FALSE, FALSE, <<"a">>)>>, "", <<>>),
     Chunk(TRUE, <<>>, <<ToolCallDelta(1, TRUE, TRUE, <<>>)>>, "", <<>>),
     Chunk(FALSE, <<>>, <<>>, "stop", <<>>),
     Chunk(FALSE, <<>>, <<>>, "tool_calls", <<[prompt_tokens |-> 9, completion_tokens |-> 7]>>)}

VARIABLES
    sessions    \* per request: the state object, the chunks taken, the events written

sessionVars == <<sessions>>

\* new StreamingToolCallState('stream', request.model, request)
NewStreamingToolCallState(b, req) ==
    [build |-> b, toolCalls |-> <<>>,
     hasEmittedMessageStart |-> FALSE,
     hasEmittedContentBlockStart |-> FALSE,
     contentBlockIndex |-> 0, actualUsage |-> <<>>,
     cumulativeUsage |-> Usage(0, 0), accumulatedContent |-> 0,
     totalChunksSeen |-> 0, estimatedInputTokens |-> EstimatedInputTokens(b, req)]

NewSession(b, req) ==
    [toolCallState |-> NewStreamingToolCallState(b, req), fed |-> <<>>, emitted |-> <<>>]

\* one object for all requests
SharedToolCallState(ss, id) == ss[1].toolCallState

\* const toolCallState: the object of the request being served
ToolCallStateOf(ss, id) == ss[id].toolCallState

NoSessions == \E req \in Requests : sessions = [id \in SessionIds |-> NewSession("actualUsage", req)]

----------------------------------------------------------------------------
(* The finish reason of the upstream, on the two paths                     *)

\* choice.finish_reason: a string, null, or missing
ReasonString(text) == [kind |-> "string", text |-> text]
ReasonNull == [kind |-> "null", text |-> ""]
ReasonUndefined == [kind |-> "undefined", text |-> ""]

FinishReasonValues ==
    {ReasonString(t) : t \in {"stop", "length", "tool_calls", "content_filter",
                              "function_call", "eos", ""}}
    \cup {ReasonNull, ReasonUndefined}

\* the table with its default entry lost
translateFinishReasonPassesThrough(reason) ==
    IF reason.kind = "string" THEN reason.text ELSE "end_turn"

\* StreamingToolCallState.translateFinishReason: in switch (reason) a value
\* that is not one of the three strings, null and undefined included, takes
\* the default branch
translateFinishReasonOf(reason) ==
    IF reason.kind = "string" THEN translateFinishReason(reason.text) ELSE "end_turn"

\* TranslationService.translateOpenAIFinishReason
translateOpenAIFinishReason(reason) ==
    IF reason.kind \in {"null", "undefined"} THEN "end_turn"
    ELSE CASE reason.text = "stop" -> "end_turn"
           [] reason.text = "length" -> "max_tokens"
           [] reason.text = "tool_calls" -> "tool_use"
           [] OTHER -> "end_turn"

VARIABLES
    translated    \* the finish reasons translated so far, with both results

finishVars == <<translated>>

NothingTranslated == translated = <<>>

----------------------------------------------------------------------------
(* The variables outside the streaming session *)

restVars == <<translatorVars, simpleBatcherVars, streamingBatcherVars, clientVars,
             sessionVars, finishVars>>

RestAtStart ==
    /\ NoRequest /\ NewSimpleToolBatcher(FALSE) /\ NewStreamingToolBatcher /\ Connected
    /\ NoSessions /\ NothingTranslated

otherThanStream == <<mapperVars, decoderVars, restVars>>

----------------------------------------------------------------------------
(* The streaming branch of the messages route, and what an observer of the *)
(* response has seen so far                                                *)

VARIABLES
    pc,            \* "create", "streaming", "ended" or "failed"
    delivered,     \* number of chunks taken from the upstream stream
    lastEvents,    \* the events processChunk returned for the last chunk
    lastFinish,    \* the finish reason of the last chunk ("" for none)
    finishCount,   \* number of chunks with a finish reason so far
    authLatest,    \* latest usage totals carried by a chunk so far (<<>>: none)
    authPrev,      \* the same, before the last chunk
    input,         \* per tool-call index, what the upstream has sent for it
    skipped,       \* the translation of the last chunk threw
    wire           \* summary of the events written to the response

classVars == <<build, toolCalls, hasEmittedMessageStart, hasEmittedContentBlockStart,
               contentBlockIndex, actualUsage, cumulativeUsage, accumulatedContent,
               totalChunksSeen, estimatedInputTokens>>
routeVars == <<pc, delivered>>
observerVars == <<lastEvents, lastFinish, finishCount, authLatest, authPrev, input,
                  skipped, wire>>
streamVars == <<classVars, routeVars, observerVars>>
vars == <<streamVars, mapperVars, decoderVars, restVars>>

State ==
    [build |-> build, toolCalls |-> toolCalls,
     hasEmittedMessageStart |-> hasEmittedMessageStart,
     hasEmittedContentBlockStart |-> hasEmittedContentBlockStart,
     contentBlockIndex |-> contentBlockIndex, actualUsage |-> actualUsage,
     cumulativeUsage |-> cumulativeUsage, accumulatedContent |-> accumulatedContent,
     totalChunksSeen |-> totalChunksSeen, estimatedInputTokens |-> estimatedInputTokens]

\* what the upstream has sent for one tool-call index
NoInput == [first |-> "none", fragments |-> <<>>, nonEmpty |-> 0]

RECURSIVE RecordInput(_, _)
RecordInput(inp, deltas) ==
    IF deltas = <<>> THEN inp
    ELSE LET d == Head(deltas)
             old == inp[d.index]
             new == [first |-> IF old.first # "none" THEN old.first
                               ELSE IF d.id /\ d.name THEN "both" ELSE "partial",
                     fragments |-> old.fragments \o d.arguments,
                     nonEmpty |-> old.nonEmpty + (IF d.arguments # <<>> THEN 1 ELSE 0)]
         IN  RecordInput([inp EXCEPT ![d.index] = new], Tail(deltas))

\* the response as seen so far
EmptyWire ==
    [count |-> 0, first |-> "",
     starts |-> [k \in OutIndexes |-> 0], stops |-> [k \in OutIndexes |-> 0],
     orphanDelta |-> FALSE,
     toolOut |-> [i \in ToolIndexes |-> {}],
     toolStarts |-> [i \in ToolIndexes |-> 0],
     toolStops |-> [i \in ToolIndexes |-> 0],
     toolDeltas |-> [i \in ToolIndexes |-> 0],
     json |-> [i \in ToolIndexes |-> <<>>],
     textStarts |-> 0,
     nMessageStart |-> 0, nMessageDelta |-> 0, nMessageStop |-> 0,
     nError |-> 0, afterError |-> 0, stopAfterError |-> FALSE,
     atStop |-> <<>>, ended |-> 0, afterEnd |-> 0]

\* res.write of one event
Write(w, e) ==
    LET isStart == e.type = "content_block_start"
        isDelta == e.type = "content_block_delta"
        isStop == e.type = "content_block_stop"
        ofTool == e.tool # NoIndex
        w1 == [w EXCEPT
                 !.count = @ + 1,
                 !.first = IF w.count = 0 THEN e.type ELSE @,
                 !.starts = IF isStart THEN [@ EXCEPT ![e.index] = @ + 1] ELSE @,
                 !.stops = IF isStop THEN [@ EXCEPT ![e.index] = @ + 1] ELSE @,
                 !.orphanDelta = @ \/ (isDelta /\ w.starts[e.index] <= w.stops[e.index]),
                 !.toolOut = IF ofTool THEN [@ EXCEPT ![e.tool] = @ \cup {e.index}] ELSE @,
                 !.toolStarts = IF ofTool /\ isStart THEN [@ EXCEPT ![e.tool] = @ + 1] ELSE @,
                 !.toolStops = IF ofTool /\ isStop THEN [@ EXCEPT ![e.tool] = @ + 1] ELSE @,
                 !.toolDeltas = IF ofTool /\ isDelta THEN [@ EXCEPT ![e.tool] = @ + 1] ELSE @,
                 !.json = IF ofTool /\ isDelta THEN [@ EXCEPT ![e.tool] = @ \o e.text] ELSE @,
                 !.textStarts = @ + (IF isStart /\ e.block = "text" THEN 1 ELSE 0),
                 !.nMessageStart = @ + (IF e.type = "message_start" THEN 1 ELSE 0),
                 !.nMessageDelta = @ + (IF e.type = "message_delta" THEN 1 ELSE 0),
                 !.nMessageStop = @ + (IF e.type = "message_stop" THEN 1 ELSE 0),
                 !.nError = @ + (IF e.type = "error" THEN 1 ELSE 0),
                 !.afterError = @ + (IF w.nError > 0 THEN 1 ELSE 0),
                 !.stopAfterError = @ \/ (w.nError > 0 /\ e.type = "message_stop"),
                 !.afterEnd = @ + (IF w.ended > 0 THEN 1 ELSE 0)]
    IN  IF e.type = "message_stop" /\ w.atStop = <<>>
        THEN [w1 EXCEPT !.atStop = <<[starts |-> w.starts, stops |-> w.stops,
                                      toolOut |-> w.toolOut]>>]
        ELSE w1

RECURSIVE WriteAll(_, _)
WriteAll(w, events) ==
    IF events = <<>> THEN w ELSE WriteAll(Write(w, Head(events)), Tail(events))

\* res.end()
End(w) == [w EXCEPT !.ended = @ + 1]

\* the turn is closed with message_stop after the error
WriteStreamErrorThenStop(w, isAPIError) ==
    End(Write(Write(w, ErrorEvent(IF isAPIError THEN <<"OpenAI API error">> ELSE <<"Stream error">>)),
              MessageStopEvent))

\* the catch block of the streaming branch
WriteStreamError(w, isAPIError) ==
    End(Write(w, ErrorEvent(IF isAPIError THEN <<"OpenAI API error">> ELSE <<"Stream error">>)))

Constructed(b) ==
    /\ build = b
    /\ toolCalls = <<>>
    /\ hasEmittedMessageStart = FALSE
    /\ hasEmittedContentBlockStart = FALSE
    /\ contentBlockIndex = 0
    /\ actualUsage = <<>>
    /\ cumulativeUsage = Usage(0, 0)
    /\ accumulatedContent = 0
    /\ totalChunksSeen = 0
    /\ \E req \in Requests : estimatedInputTokens = EstimatedInputTokens(build, req)
    /\ pc = "create"
    /\ delivered = 0
    /\ lastEvents = <<>>
    /\ lastFinish = ""
    /\ finishCount = 0
    /\ authLatest = <<>>
    /\ authPrev = <<>>
    /\ input = [i \in ToolIndexes |-> NoInput]
    /\ skipped = FALSE
    /\ wire = EmptyWire

Init == Constructed("actualUsage") /\ NewMappers("uuid") /\ NoResponse /\ RestAtStart

InitCumulative == Constructed("cumulativeUsage") /\ NewMappers("uuid") /\ NoResponse /\ RestAtStart

\* await openAIService.createChatCompletionStream(streamRequest) resolves
CreateStream ==
    /\ pc = "create"
    /\ pc' = "streaming"
    /\ UNCHANGED <<classVars, delivered, observerVars, otherThanStream>>

\* the create call rejects
CreateRejects(isAPIError) ==
    /\ pc = "create"
    /\ pc' = "failed"
    /\ wire' = WriteStreamError(wire, isAPIError)
    /\ UNCHANGED <<classVars, delivered, lastEvents, lastFinish, finishCount,
                   authLatest, authPrev, input, skipped, otherThanStream>>

\* one iteration of for await (const chunk of stream)
DeliverChunk(chunk) ==
    /\ pc = "streaming"
    /\ delivered < MaxChunks
    /\ \E r \in {processChunk(State, chunk)} :
           /\ toolCalls' = r.state.toolCalls
           /\ hasEmittedMessageStart' = r.state.hasEmittedMessageStart
           /\ hasEmittedContentBlockStart' = r.state.hasEmittedContentBlockStart
           /\ contentBlockIndex' = r.state.contentBlockIndex
           /\ actualUsage' = r.state.actualUsage
           /\ cumulativeUsage' = r.state.cumulativeUsage
           /\ accumulatedContent' = r.state.accumulatedContent
           /\ totalChunksSeen' = r.state.totalChunksSeen
           /\ lastEvents' = r.events
           /\ wire' = WriteAll(wire, r.events)
    /\ delivered' = delivered + 1
    /\ lastFinish' = chunk.finish_reason
    /\ finishCount' = finishCount + (IF chunk.finish_reason # "" THEN 1 ELSE 0)
    /\ authPrev' = authLatest
    /\ authLatest' = IF chunk.usage # <<>>
                     THEN <<Usage(chunk.usage[1].prompt_tokens, chunk.usage[1].completion_tokens)>>
                     ELSE authLatest
    /\ input' = RecordInput(input, chunk.tool_calls)
    /\ skipped' = FALSE
    /\ UNCHANGED <<build, estimatedInputTokens, pc, otherThanStream>>

\* one iteration in which processChunk throws: the catch around it logs the
\* error and the loop goes on; the events of the chunk are never written
DeliverMalformed(m) ==
    /\ pc = "streaming"
    /\ delivered < MaxChunks
    /\ \E s \in {processChunkThrows(State, m)} :
           /\ toolCalls' = s.toolCalls
           /\ hasEmittedMessageStart' = s.hasEmittedMessageStart
           /\ hasEmittedContentBlockStart' = s.hasEmittedContentBlockStart
           /\ contentBlockIndex' = s.contentBlockIndex
           /\ actualUsage' = s.actualUsage
           /\ cumulativeUsage' = s.cumulativeUsage
           /\ accumulatedContent' = s.accumulatedContent
           /\ totalChunksSeen' = s.totalChunksSeen
    /\ delivered' = delivered + 1
    /\ lastEvents' = <<>>
    /\ lastFinish' = ""
    /\ authPrev' = authLatest
    /\ skipped' = TRUE
    /\ UNCHANGED <<build, estimatedInputTokens, pc, finishCount, authLatest, input, wire,
                   otherThanStream>>

\* iterating the stream throws
StreamThrows(isAPIError) ==
    /\ pc = "streaming"
    /\ pc' = "failed"
    /\ wire' = WriteStreamError(wire, isAPIError)
    /\ UNCHANGED <<classVars, delivered, lastEvents, lastFinish, finishCount,
                   authLatest, authPrev, input, skipped, otherThanStream>>

\* the stream is exhausted
StreamEnds ==
    /\ pc = "streaming"
    /\ pc' = "ended"
    /\ wire' = End(wire)
    /\ UNCHANGED <<classVars, delivered, lastEvents, lastFinish, finishCount,
                   authLatest, authPrev, input, skipped, otherThanStream>>

Next ==
    \/ CreateStream
    \/ \E isAPIError \in BOOLEAN : CreateRejects(isAPIError)
    \/ \E chunk \in Chunks : DeliverChunk(chunk)
    \/ \E isAPIError \in BOOLEAN : StreamThrows(isAPIError)
    \/ StreamEnds

Spec == Init /\ [][Next]_vars

SpecCumulative == InitCumulative /\ [][Next]_vars

\* sessions in which the upstream also sends chunks that cannot be translated
NextMalformed ==
    \/ Next
    \/ \E m \in MalformedChunks : DeliverMalformed(m)

SpecMalformed == Init /\ [][NextMalformed]_vars

\* the client closes the connection while the response is being streamed;
\* the route has no listener for it and goes on
ClientDisconnects ==
    /\ pc = "streaming"
    /\ ~disconnected
    /\ disconnected' = TRUE
    /\ UNCHANGED <<streamVars, mapperVars, decoderVars, translatorVars, simpleBatcherVars,
                   streamingBatcherVars, sessionVars, finishVars>>

NextDisconnect ==
    \/ Next
    \/ ClientDisconnects

SpecDisconnect == Init /\ [][NextDisconnect]_vars

\* two requests are being streamed; the chunks of their upstream streams
\* arrive in any interleaving
otherThanSessions ==
    <<streamVars, mapperVars, decoderVars, translatorVars, simpleBatcherVars,
      streamingBatcherVars, clientVars, finishVars>>

RECURSIVE TotalFed(_, _)
TotalFed(ss, ids) ==
    IF ids = {} THEN 0
    ELSE LET id == CHOOSE x \in ids : TRUE
         IN  Len(ss[id].fed) + TotalFed(ss, ids \ {id})

\* one iteration of the for await loop of the handler that serves request id
SessionDeliverChunk(id, chunk) ==
    /\ TotalFed(sessions, SessionIds) < MaxChunks
    /\ \E r \in {processChunk(ToolCallStateOf(sessions, id), chunk)} :
           sessions' = [sessions EXCEPT ![id] =
                           [toolCallState |-> r.state,
                            fed |-> Append(@.fed, chunk),
                            emitted |-> Append(@.emitted, r.events)]]
    /\ UNCHANGED otherThanSessions

NextSessions == \E id \in SessionIds, chunk \in SessionChunks : SessionDeliverChunk(id, chunk)

SpecSessions == Init /\ [][NextSessions]_vars

\* the upstream ends a completion with a finish reason; the streaming path
\* (handleCompletion) and the other path (openAIToAnthropic) translate it
TranslateFinishReason(reason) ==
    /\ Len(translated) < MaxResponses
    /\ translated' = Append(translated,
                            [reason |-> reason,
                             streaming |-> translateFinishReasonOf(reason),
                             response |-> translateOpenAIFinishReason(reason)])
    /\ UNCHANGED <<streamVars, mapperVars, decoderVars, translatorVars, simpleBatcherVars,
                   streamingBatcherVars, clientVars, sessionVars>>

NextFinish == \E reason \in FinishReasonValues : TranslateFinishReason(reason)

SpecFinish == Init /\ [][NextFinish]_vars

----------------------------------------------------------------------------
(* Calls on the ToolIdMapper of a session *)

\* provider ids a caller can hold: given ones and ones some mapper returned
KnownProviderIds ==
    ProviderIds \cup UNION {DOMAIN mappers[s].openAIToAnthropic : s \in Sessions}

\* the sessions of S are each given the call of method op with these arguments
Invoked(S, op, a, t, o) ==
    /\ last.n < MaxCalls
    /\ \E draw \in [S -> Randoms], c \in {Call(op, a, t, o)} :
         \E r \in {[s \in S |-> Invoke(mapperBuild, mappers[s], c, Draw(draw[s], last.n + 1))]} :
           /\ mappers' = [s \in Sessions |-> IF s \in S THEN r[s].mapper ELSE mappers[s]]
           /\ returned' = [s \in Sessions |->
                              IF s \in S THEN Returned(returned[s], c, r[s].result)
                              ELSE returned[s]]
           /\ last' = [n |-> last.n + 1, on |-> S, call |-> c,
                       results |-> [s \in Sessions |-> IF s \in S THEN r[s].result ELSE <<>>],
                       again |-> [s \in Sessions |->
                                     s \in S /\ IsCorrelate(c) /\ returned[s][a] # <<>>],
                       size |-> [s \in Sessions |->
                                    IF s \in S THEN getStats(mappers[s]).mappingCount ELSE 0]]
    /\ UNCHANGED <<mapperBuild, streamVars, decoderVars, restVars>>

MapIds(s, a, o) ==
    /\ s \in Sessions
    /\ Invoked({s}, "mapIds", a, <<>>, o)

\* only the build that numbers its ids takes a tool name
MapAnthropicId(s, a, t) ==
    /\ t # <<>> => mapperBuild = "counter"
    /\ Invoked({s}, "mapAnthropicId", a, t, <<>>)

GetOrCreateOpenAIId(s, a) ==
    /\ s \in Sessions
    /\ Invoked({s}, "getOrCreateOpenAIId", a, <<>>, <<>>)

MapOpenAIId(s, o) ==
    /\ s \in Sessions
    /\ Invoked({s}, "mapOpenAIId", <<>>, <<>>, o)

Clear(s) ==
    /\ s \in Sessions
    /\ Invoked({s}, "clear", <<>>, <<>>, <<>>)

GetStats(s) ==
    /\ s \in Sessions
    /\ Invoked({s}, "getStats", <<>>, <<>>, <<>>)

NextMapper ==
    \/ \E s \in Sessions, g \in GivenMappings : MapIds(s, g[1], g[2])
    \/ \E s \in Sessions, a \in MappedIds, t \in ToolNames \cup {<<>>} : MapAnthropicId(s, a, t)
    \/ \E s \in Sessions, a \in LocalIds : GetOrCreateOpenAIId(s, a)
    \/ \E s \in Sessions, o \in KnownProviderIds : MapOpenAIId(s, o)
    \/ \E s \in Sessions : Clear(s)
    \/ \E s \in Sessions : GetStats(s)

InitMapper ==
    Constructed("actualUsage") /\ NoResponse /\ RestAtStart /\ \E b \in MapperBuilds : NewMappers(b)

SpecMapper == InitMapper /\ [][NextMapper]_vars

\* two fresh sessions that are given the same correlate calls, one by one
BothMapAnthropicId(a, t) ==
    /\ t # <<>> => mapperBuild = "counter"
    /\ Invoked(Sessions, "mapAnthropicId", a, t, <<>>)

BothGetOrCreateOpenAIId(a) ==
    /\ a \in LocalIds
    /\ Invoked(Sessions, "getOrCreateOpenAIId", a, <<>>, <<>>)

NextMapperPair ==
    \/ \E a \in MappedIds, t \in ToolNames \cup {<<>>} : BothMapAnthropicId(a, t)
    \/ \E a \in LocalIds : BothGetOrCreateOpenAIId(a)

SpecMapperPair == InitMapper /\ [][NextMapperPair]_vars

----------------------------------------------------------------------------
(* Decoding the arguments of a tool call of the upstream's response *)

\* the upstream's response holds a tool call
ResponseArrives ==
    /\ toolCall = <<>>
    /\ \E l \in PieceLists(MaxPieces), name \in FunctionNames :
           /\ pieces' = l
           /\ toolCall' = <<[id |-> <<"call", "_", "x">>, name |-> name, arguments |-> Text(l)]>>
    /\ UNCHANGED <<parsedInput, content, streamVars, mapperVars, restVars>>

\* safeParseToolArguments(toolCall.function.arguments)
SafeParseToolArguments ==
    /\ toolCall # <<>> /\ parsedInput = <<>>
    /\ parsedInput' = <<safeParseToolArguments(toolCall[1].arguments)>>
    /\ UNCHANGED <<toolCall, pieces, content, streamVars, mapperVars, restVars>>

\* openAIToAnthropic: the tool call becomes a tool_use block
OpenAIToAnthropic ==
    /\ toolCall # <<>> /\ content = <<>>
    /\ content' = <<ToolUseBlock(toolCall[1])>>
    /\ UNCHANGED <<toolCall, pieces, parsedInput, streamVars, mapperVars, restVars>>

NextDecoder ==
    \/ ResponseArrives
    \/ SafeParseToolArguments
    \/ OpenAIToAnthropic

SpecDecoder == Init /\ [][NextDecoder]_vars

----------------------------------------------------------------------------
(* Translating the request of the client *)

otherThanTurn ==
    <<streamVars, mapperVars, decoderVars, streamingBatcherVars, clientVars, sessionVars,
      finishVars>>

\* the request has passed validateAnthropicRequest
RequestArrives ==
    /\ request = <<>>
    /\ \E req \in AnthropicRequests : request' = <<req>>
    /\ UNCHANGED <<openAIRequest, simpleBatcherVars, otherThanTurn>>

\* TranslationService.anthropicToOpenAI(request, modelConfig)
AnthropicToOpenAI ==
    /\ request # <<>> /\ openAIRequest = <<>>
    /\ openAIRequest' = <<anthropicToOpenAI(request[1])>>
    /\ UNCHANGED <<request, simpleBatcherVars, otherThanTurn>>

NextTranslator ==
    \/ RequestArrives
    \/ AnthropicToOpenAI

SpecTranslator == Init /\ [][NextTranslator]_vars

----------------------------------------------------------------------------
(* Calls on the SimpleToolBatcher with the upstream request *)

NeedsBatching ==
    /\ openAIRequest # <<>> /\ needs = <<>>
    /\ needs' = <<needsBatching(shouldBatch, openAIRequest[1])>>
    /\ UNCHANGED <<shouldBatch, singleToolRequests, responses, combined, translatorVars,
                   otherThanTurn>>

CreateSingleToolResultRequests ==
    /\ openAIRequest # <<>> /\ singleToolRequests = <<>>
    /\ singleToolRequests' = <<createSingleToolResultRequests(openAIRequest[1])>>
    /\ UNCHANGED <<shouldBatch, needs, responses, combined, translatorVars, otherThanTurn>>

NextSimpleBatcher ==
    \/ NextTranslator
    \/ NeedsBatching
    \/ CreateSingleToolResultRequests

InitSimpleBatcher ==
    /\ Constructed("actualUsage") /\ NewMappers("uuid") /\ NoResponse /\ NoRequest
    /\ NewStreamingToolBatcher /\ Connected /\ NoSessions
    /\ NothingTranslated
    /\ \E limitToolResults \in BOOLEAN : NewSimpleToolBatcher(limitToolResults)

SpecSimpleBatcher == InitSimpleBatcher /\ [][NextSimpleBatcher]_vars

\* the upstream calls of the single requests have returned
ResponsesReturn ==
    /\ responses = <<>>
    /\ \E l \in CompletionLists(MaxResponses) : responses' = <<l>>
    /\ UNCHANGED <<shouldBatch, needs, singleToolRequests, combined, translatorVars,
                   otherThanTurn>>

CombineSingleToolResponses ==
    /\ responses # <<>> /\ combined = <<>>
    /\ combined' = <<combineSingleToolResponses(responses[1])>>
    /\ UNCHANGED <<shouldBatch, needs, singleToolRequests, responses, translatorVars,
                   otherThanTurn>>

NextCombine ==
    \/ ResponsesReturn
    \/ CombineSingleToolResponses

SpecCombine == InitSimpleBatcher /\ [][NextCombine]_vars

----------------------------------------------------------------------------
(* StreamingToolBatcher.processSequentialStreams, its upstream calls and    *)
(* the events it yields                                                     *)

otherThanBatch ==
    <<translatorVars, shouldBatch, needs, responses, combined, streamVars, mapperVars,
      decoderVars, clientVars, sessionVars, finishVars>>

\* the events are yielded and the generator goes on at target; when the loop
\* is over it yields the final events and returns
Yields(events, batchNumber, target) ==
    LET final == IF target.step = "final" THEN generateFinalEvents(eventBuffer') ELSE <<>>
    IN  /\ out' = out \o events \o final
        /\ outStream' = outStream \o [n \in 1 .. Len(events) |-> batchNumber]
                                  \o [n \in 1 .. Len(final) |-> 0]
        /\ place' = IF target.step = "final" THEN Place("done", target.i) ELSE target

\* the first next() of the generator: lines 38 to 41
ProcessSequentialStreams ==
    /\ place.step = "idle"
    /\ eventBuffer' = resetEventBuffer
    /\ singleToolRequests' = <<createSingleToolResultRequests(openAIRequest[1])>>
    /\ place' = Place("create", 0)
    /\ UNCHANGED <<calls, batchChunks, out, outStream, usageSeen, failedPartial, thrown,
                   otherThanBatch>>

\* client.chat.completions.create(streamRequest) is called
IssueCall ==
    /\ place.step = "create"
    /\ calls' = Append(calls, UpstreamCall("pending", FALSE))
    /\ place' = Place("awaiting", place.i)
    /\ UNCHANGED <<eventBuffer, singleToolRequests, batchChunks, out, outStream, usageSeen,
                   failedPartial, thrown, otherThanBatch>>

\* the call resolves with the stream
CallResolves ==
    /\ place.step = "awaiting"
    /\ calls' = [calls EXCEPT ![place.i + 1].status = "open"]
    /\ \E target \in {AfterResolve(place.i, Len(singleToolRequests[1]))} :
           /\ eventBuffer' = IF target.step = "streaming"
                             THEN [eventBuffer EXCEPT !.streamCount = @ + 1]
                             ELSE eventBuffer
           /\ Yields(<<>>, place.i + 1, target)
    /\ UNCHANGED <<singleToolRequests, batchChunks, usageSeen, failedPartial, thrown,
                   otherThanBatch>>

\* the call or the stream throws: the catch block yields the error event
Fails(error) ==
    /\ calls' = [calls EXCEPT ![place.i + 1].status = "failed"]
    /\ failedPartial' = <<[batchNumber |-> place.i + 1, error |-> error]>>
    /\ eventBuffer' = eventBuffer
    /\ Yields(<<BatchErrorEvent(error)>>, place.i + 1,
              AfterError(place.i, Len(singleToolRequests[1])))
    /\ UNCHANGED <<singleToolRequests, batchChunks, usageSeen, thrown, otherThanBatch>>

\* the call rejects
CallRejects(error) ==
    /\ place.step = "awaiting"
    /\ Fails(error)

\* one iteration of for await (const chunk of stream)
DeliverBatchChunk(chunk) ==
    /\ place.step = "streaming"
    /\ batchChunks < MaxChunks
    /\ \E r \in {processStreamChunk(eventBuffer, chunk, place.i = 0,
                                     place.i = Len(singleToolRequests[1]) - 1)} :
           /\ eventBuffer' = r.buffer
           /\ Yields(r.events, place.i + 1, place)
    /\ batchChunks' = batchChunks + 1
    /\ calls' = [calls EXCEPT ![place.i + 1].finished = @ \/ chunk.finish_reason # "",
                              ![place.i + 1].role = @ \/ chunk.role]
    /\ usageSeen' = IF chunk.usage = <<>> THEN usageSeen
                    ELSE Usage(usageSeen.input_tokens + chunk.usage[1].prompt_tokens,
                               usageSeen.output_tokens + chunk.usage[1].completion_tokens)
    /\ UNCHANGED <<singleToolRequests, failedPartial, thrown, otherThanBatch>>

\* an iteration whose chunk is null: processStreamChunk throws, the catch
\* block of processIndividualStream yields an error event and the loop goes on
DeliverBatchMalformed ==
    /\ place.step = "streaming"
    /\ batchChunks < MaxChunks
    /\ eventBuffer' = eventBuffer
    /\ Yields(<<ChunkErrorEvent>>, place.i + 1, place)
    /\ batchChunks' = batchChunks + 1
    /\ UNCHANGED <<singleToolRequests, calls, usageSeen, failedPartial, thrown, otherThanBatch>>

\* the stream is exhausted
BatchStreamEnds ==
    /\ place.step = "streaming"
    /\ calls' = [calls EXCEPT ![place.i + 1].status = "ended"]
    /\ eventBuffer' = eventBuffer
    /\ Yields(<<>>, place.i + 1, AfterStream(place.i, Len(singleToolRequests[1])))
    /\ UNCHANGED <<singleToolRequests, batchChunks, usageSeen, failedPartial, thrown,
                   otherThanBatch>>

\* the iteration of the stream throws
BatchStreamThrows(error) ==
    /\ place.step = "streaming"
    /\ Fails(error)

\* the catch block throws after its event
Rethrows ==
    /\ place.step = "yieldedError"
    /\ thrown' = <<BatchThrows(failedPartial[1].error, failedPartial[1].batchNumber)>>
    /\ place' = Place("failed", place.i)
    /\ UNCHANGED <<eventBuffer, singleToolRequests, calls, batchChunks, out, outStream,
                   usageSeen, failedPartial, otherThanBatch>>

NextSequential ==
    \/ ProcessSequentialStreams
    \/ IssueCall
    \/ CallResolves
    \/ \E error \in UpstreamErrors : CallRejects(error)
    \/ \E chunk \in BatchChunks : DeliverBatchChunk(chunk)
    \/ DeliverBatchMalformed
    \/ BatchStreamEnds
    \/ \E error \in UpstreamErrors : BatchStreamThrows(error)
    \/ Rethrows

InitSequential ==
    /\ Constructed("actualUsage") /\ NewMappers("uuid") /\ NoResponse
    /\ NewSimpleToolBatcher(TRUE) /\ NewStreamingToolBatcher /\ Connected /\ NoSessions
    /\ NothingTranslated
    /\ \E req \in BatchConversations :
           /\ request = <<req>>
           /\ openAIRequest = <<anthropicToOpenAI(req)>>

SpecSequential == InitSequential /\ [][NextSequential]_vars

----------------------------------------------------------------------------
(* Properties *)

\* every event so far belongs to the session up to and including its
\* terminal chunk (the first chunk with a finish reason)
UpToTerminal == finishCount = 0 \/ (finishCount = 1 /\ lastFinish # "")

\* the last chunk is the terminal chunk
AtTerminal == finishCount = 1 /\ lastFinish # ""

\* the last chunk came after the terminal chunk
AfterTerminal == finishCount >= 2 \/ (finishCount = 1 /\ lastFinish = "")

EventsOfType(events, t) == SelectSeq(events, LAMBDA e : e.type = t)

\* C1: every content_block_start for an output index k is followed, before
\* message_stop, by exactly one content_block_stop for k, and no output index
\* receives two content_block_start events.
C1_StreamingNesting ==
    /\ UpToTerminal => \A k \in OutIndexes : wire.starts[k] <= 1
    /\ wire.atStop # <<>> =>
          \A k \in OutIndexes :
              wire.atStop[1].starts[k] >= 1 => wire.atStop[1].stops[k] = 1

\* C2: all events of the tool call at upstream index i carry one output
\* index: i + 1 if a text block exists, i otherwise.
C2_ToolCallOutputIndex ==
    UpToTerminal =>
        \A i \in ToolIndexes :
            /\ Cardinality(wire.toolOut[i]) <= 1
            /\ AtTerminal =>
                  wire.toolOut[i] \subseteq {IF wire.textStarts > 0 THEN i + 1 ELSE i}

\* C3: every content_block_delta at an output index k comes after the
\* content_block_start for k and before the content_block_stop for k
\* (stated for the events up to the terminal chunk).
C3_DeltaInsideOpenBlock == UpToTerminal => ~wire.orphanDelta

\* C4: message_start is the first event of a session; no content block event,
\* message_delta or message_stop is emitted before it.
C4_MessageStartFirst ==
    (UpToTerminal /\ wire.nMessageStart > 0) => wire.first = "message_start"

\* what the fixed table gives for a finish reason
ExpectedStopReason(f) ==
    IF f = "length" THEN "max_tokens"
    ELSE IF f = "tool_calls" THEN "tool_use" ELSE "end_turn"

\* C5: the terminal chunk emits, in this order, content_block_stop for the
\* text block if it is open, content_block_stop for every tool call that is
\* started and not completed, one message_delta with the translated stop
\* reason and usage, and one message_stop as the last event.
C5_CompletionOrder ==
    AtTerminal =>
        LET n == Len(lastEvents)
            stops == EventsOfType(lastEvents, "content_block_stop")
            m == Len(stops)
            text == IF wire.textStarts > 0 THEN 1 ELSE 0
            started == {i \in ToolIndexes : wire.toolStarts[i] > 0}
        IN  /\ n >= m + 2
            /\ lastEvents[n].type = "message_stop"
            /\ lastEvents[n - 1].type = "message_delta"
            /\ lastEvents[n - 1].stop_reason = ExpectedStopReason(lastFinish)
            /\ lastEvents[n - 1].usage # <<>>
            /\ Len(EventsOfType(lastEvents, "message_stop")) = 1
            /\ Len(EventsOfType(lastEvents, "message_delta")) = 1
            /\ \A j \in 1 .. m : lastEvents[n - 2 - m + j] = stops[j]
            /\ m = text + Cardinality(started)
            /\ text = 1 => stops[1].tool = NoIndex /\ stops[1].index = 0
            /\ \A i \in started :
                  \E j \in (text + 1) .. m : stops[j].tool = i

\* a session with an open text block and an open tool call has got its
\* terminal chunk
C5_Witness ==
    /\ AtTerminal
    /\ wire.textStarts = 1
    /\ \E i \in ToolIndexes : wire.toolStarts[i] = 1
    /\ Len(EventsOfType(lastEvents, "content_block_stop")) >= 2

\* C6: after a chunk with a finish reason has been processed, processChunk
\* emits no event for any later chunk.
C6_TerminalSession == AfterTerminal => lastEvents = <<>>

\* C7: the usage of message_delta is the upstream usage whenever a chunk up to
\* and including the terminal chunk carried usage totals, and the request-based
\* estimate otherwise; never a sum of the two.
C7_FinalUsageAuthoritative ==
    AtTerminal =>
        \A n \in 1 .. Len(lastEvents) :
            lastEvents[n].type = "message_delta" =>
                lastEvents[n].usage =
                    IF authLatest # <<>> THEN authLatest
                    ELSE <<Usage(estimatedInputTokens, 0)>>

\* a is not smaller than b
NotSmaller(a, b) ==
    a.input_tokens >= b.input_tokens /\ a.output_tokens >= b.output_tokens

\* C8: once upstream usage totals have appeared, no usage emitted with a later
\* chunk is smaller (stated for the message_delta of the terminal chunk).
C8_UsageMonotone ==
    (AtTerminal /\ authPrev # <<>>) =>
        \A n \in 1 .. Len(lastEvents) :
            lastEvents[n].type = "message_delta" =>
                NotSmaller(lastEvents[n].usage[1], authPrev[1])

\* C9: a tool call whose first fragment carries the id and the name gets one
\* content_block_start, one input_json_delta per non-empty argument fragment
\* whose concatenation is the concatenation of the fragments and the
\* accumulated arguments, and one content_block_stop, with the terminal chunk.
C9_FragmentedArguments ==
    \A i \in ToolIndexes :
        input[i].first = "both" =>
            /\ wire.toolStarts[i] = 1
            /\ wire.toolDeltas[i] = input[i].nonEmpty
            /\ wire.json[i] = input[i].fragments
            /\ getAccumulatedArguments(toolCalls, i) = input[i].fragments
            /\ wire.toolStops[i] <= 1
            /\ finishCount = 0 => wire.toolStops[i] = 0
            /\ AtTerminal =>
                  /\ wire.toolStops[i] = 1
                  /\ \E n \in 1 .. Len(lastEvents) :
                        /\ lastEvents[n].type = "content_block_stop"
                        /\ lastEvents[n].tool = i

\* the call at index 0 came as an opening fragment and two argument
\* fragments, and the terminal chunk has closed it
C9_Witness ==
    /\ AtTerminal
    /\ input[0].first = "both"
    /\ input[0].nonEmpty >= 2
    /\ wire.json[0] = <<"a", "b">>
    /\ wire.toolStops[0] = 1

\* C10: when the upstream stream fails, the route writes exactly one error
\* event, ends the response, and writes no message_stop after the error.
C10_StreamErrorTerminal ==
    /\ pc = "failed" =>
          /\ wire.nError = 1
          /\ wire.ended = 1
          /\ wire.afterError = 0
          /\ ~wire.stopAfterError
          /\ wire.afterEnd = 0
    /\ pc # "failed" => wire.nError = 0

\* the stream has failed after events of the session were written
C10_Witness ==
    /\ pc = "failed"
    /\ wire.nMessageStart = 1
    /\ wire.count >= 3
    /\ wire.nMessageStop = 0

\* C11: a chunk whose translation throws is skipped: nothing is written for
\* it, the state of the stream is as it was before the chunk, and the session
\* goes on with the next chunk.
C11_MalformedChunkSkipped ==
    [][(delivered' # delivered /\ skipped') =>
          (UNCHANGED classVars /\ wire' = wire /\ pc' = "streaming")]_vars

\* a session of the last call
Called(s) == s \in last.on

NoStats == [mappingCount |-> 0, anthropicIds |-> {}, openAIIds |-> {}]

\* C12: within one session, for any local id and after any earlier correlate
\* calls for other ids, mapOpenAIId(getOrCreateOpenAIId(id).openaiId) = id.
C12_RoundTrip ==
    \A s \in Sessions :
        (Called(s) /\ last.call.op = "getOrCreateOpenAIId")
            => mapOpenAIId(mappers[s], last.results[s]) = last.call.anthropicId

\* C13: the two maps of a mapper are inverse to each other: a is mapped to o
\* exactly when o is mapped back to a.
C13_StrictBijection ==
    \A s \in Sessions :
        LET m == mappers[s]
        IN  /\ \A a \in DOMAIN m.anthropicToOpenAI :
                  getAnthropicId(m, m.anthropicToOpenAI[a]) = <<a>>
            /\ \A o \in DOMAIN m.openAIToAnthropic :
                  getOpenAIId(m, m.openAIToAnthropic[o]) = <<o>>

\* C14: a correlate call (mapAnthropicId or getOrCreateOpenAIId) for a local
\* id that was handed a provider id before in the session returns that same
\* provider id and adds no mapping.
C14_CorrelateIdempotent ==
    [][\A s \in Sessions :
          (last'.n # last.n /\ s \in last'.on /\ IsCorrelate(last'.call)
             /\ returned[s][last'.call.anthropicId] # <<>>)
          => /\ last'.results[s] = returned[s][last'.call.anthropicId][1]
             /\ mappers'[s] = mappers[s]]_vars

\* a repeated correlate call, made when the session holds other ids too
C14_Witness ==
    \E s \in Sessions :
        /\ Called(s) /\ last.again[s]
        /\ Cardinality({a \in LocalIds : returned[s][a] # <<>>}) >= 2
        /\ last.results[s] = returned[s][last.call.anthropicId][1]

\* C15: mapOpenAIId with a provider id that has no mapping returns the id it
\* was given and changes neither map.
C15_ResolveFailOpen ==
    [][\A s \in Sessions :
          (last'.n # last.n /\ s \in last'.on /\ last'.call.op = "mapOpenAIId"
             /\ last'.call.openAIId \notin DOMAIN mappers[s].openAIToAnthropic)
          => /\ last'.results[s] = last'.call.openAIId
             /\ mappers'[s] = mappers[s]]_vars

\* a lookup that misses in a mapper that holds mappings
C15_Witness ==
    \E s \in Sessions :
        /\ Called(s) /\ last.call.op = "mapOpenAIId"
        /\ last.call.openAIId \notin DOMAIN mappers[s].openAIToAnthropic
        /\ mappers[s].openAIToAnthropic # <<>>
        /\ last.results[s] = last.call.openAIId

\* C16: two fresh sessions that are given the same correlate calls are
\* returned the same provider id by every call.
C16_CorrelateDeterministic == last.on = Sessions => last.results[1] = last.results[2]

\* C17: clear() leaves no mapping in either direction (getStats reports no
\* mapping and no id, mapOpenAIId returns every id as given), and a call on
\* one mapper changes nothing in another.
C17_SessionScoped ==
    [][\A s \in Sessions :
          (last'.n # last.n /\ last'.on = {s})
          => /\ last'.call.op = "clear"
                  => /\ getStats(mappers'[s]) = NoStats
                     /\ \A o \in KnownProviderIds : mapOpenAIId(mappers'[s], o) = o
             /\ \A t \in Sessions \ {s} : mappers'[t] = mappers[t]]_vars

\* a mapper that held mappings has been cleared while another still holds its own
C17_Witness ==
    \E s \in Sessions, t \in Sessions :
        /\ last.on = {s} /\ last.call.op = "clear" /\ last.size[s] > 0
        /\ getStats(mappers[s]) = NoStats
        /\ t # s /\ getStats(mappers[t]).mappingCount > 0

\* the text is made of well-formed objects, with or without blanks around them
OnlyObjects(l) == \A n \in 1 .. Len(l) : l[n] \in ObjectPieces \cup {Blank}

\* C18: for a text that is n >= 2 complete top-level objects one after the
\* other, safeParseToolArguments returns the list of the n objects in the order
\* of the text, braces and escaped quotes inside string literals
\* notwithstanding; for a text that is one well-formed object it returns that
\* object, not a list.
C18_ConcatenatedObjects ==
    (parsedInput # <<>> /\ OnlyObjects(pieces)) =>
        /\ Len(Values(pieces)) >= 2 => parsedInput[1] = Arr(Values(pieces))
        /\ Len(Values(pieces)) = 1 => parsedInput[1] = Values(pieces)[1]

\* three objects, one of them with a brace after an escaped quote in a string
C18_Witness ==
    /\ parsedInput # <<>> /\ OnlyObjects(pieces)
    /\ Len(Values(pieces)) >= 3
    /\ \E n \in 1 .. Len(pieces) : \E k \in 1 .. Len(pieces[n].text) : pieces[n].text[k] = Backslash
    /\ parsedInput[1].kind = "array" /\ Len(parsedInput[1].body) = Len(Values(pieces))

\* C19: when strict parsing fails and the text holds no parseable top-level
\* object, safeParseToolArguments returns the payload of the raw text and the
\* error of the strict parse.
C19_SentinelWhenNothingParses ==
    (parsedInput # <<>> /\ ~JSONparse(Text(pieces)).ok /\ Values(pieces) = <<>>) =>
        parsedInput[1] = RawArguments(Text(pieces), ErrorMessage(JSONparse(Text(pieces))))

\* C20: every tool_use block of the translated response has a name that is
\* not empty and an input that is an object.
C20_ToolUseInputIsObject ==
    \A n \in 1 .. Len(content) :
        content[n].type = "tool_use" =>
            content[n].name # <<>> /\ content[n].input.kind = "object"

\* the tool calls and the tool results of a list of blocks, as the conversation
\* pairs them: the ids of the tool_use blocks of the message together, then the
\* id of each tool_result block
CorrelationOfBlocks(blocks) ==
    LET uses == SelectBlocks(blocks, {"tool_use"})
        results == SelectBlocks(blocks, {"tool_result"})
    IN  (IF uses = <<>> THEN <<>>
         ELSE <<[kind |-> "tool_calls", ids |-> [n \in 1 .. Len(uses) |-> uses[n].id]]>>)
        \o [n \in 1 .. Len(results) |-> [kind |-> "tool", ids |-> <<results[n].id>>]]

RECURSIVE CorrelationOfRequest(_)
CorrelationOfRequest(messages) ==
    IF messages = <<>> THEN <<>>
    ELSE (IF Head(messages).isString THEN <<>> ELSE CorrelationOfBlocks(Head(messages).blocks))
         \o CorrelationOfRequest(Tail(messages))

\* the same, read from the messages of the upstream request
RECURSIVE CorrelationOfOutput(_)
CorrelationOfOutput(messages) ==
    IF messages = <<>> THEN <<>>
    ELSE LET m == Head(messages)
         IN  (IF m.role = "tool" THEN <<[kind |-> "tool", ids |-> <<m.tool_call_id>>]>>
              ELSE IF m.tool_calls # <<>>
              THEN <<[kind |-> "tool_calls",
                      ids |-> [n \in 1 .. Len(m.tool_calls) |-> m.tool_calls[n].id]]>>
              ELSE <<>>)
             \o CorrelationOfOutput(Tail(messages))

\* C21: anthropicToOpenAI keeps the correlation of tool calls and results:
\* the ids of the tool_use blocks of an assistant message are the ids of the
\* tool_calls of one assistant message, each tool_result block is one message
\* of role tool whose tool_call_id is its tool_use_id, in the order of the
\* blocks, and no id is rewritten.
C21_CorrelationVerbatim ==
    openAIRequest # <<>> =>
        /\ CorrelationOfOutput(openAIRequest[1].messages)
               = CorrelationOfRequest(request[1].messages)
        /\ \A n \in 1 .. Len(openAIRequest[1].messages) :
               openAIRequest[1].messages[n].tool_calls # <<>>
                   => openAIRequest[1].messages[n].role = "assistant"

\* an assistant message with two tool calls around text, then a user message
\* with their two results around text, have been translated
C21_Witness ==
    /\ openAIRequest # <<>>
    /\ \E n \in 1 .. Len(request[1].messages) - 1 :
           /\ request[1].messages[n].role = "assistant"
           /\ Len(SelectBlocks(request[1].messages[n].blocks, {"tool_use"})) = 2
           /\ request[1].messages[n + 1].role = "user"
           /\ Len(SelectBlocks(request[1].messages[n + 1].blocks, {"tool_result"})) = 2
    /\ Len(CorrelationOfOutput(openAIRequest[1].messages)) >= 3

\* the messages of role tool, and the others, in their order
ToolMessages(messages) == SelectRole(messages, {"tool"})
OtherMessages(messages) == SelectRole(messages, Roles \ {"tool"})

\* position of the first message of role tool, 0 when there is none
RECURSIVE FirstTool(_)
FirstTool(messages) ==
    IF messages = <<>> THEN 0
    ELSE IF Head(messages).role = "tool" THEN 1
    ELSE IF FirstTool(Tail(messages)) = 0 THEN 0 ELSE 1 + FirstTool(Tail(messages))

\* number of other messages before the j-th message of role tool
RECURSIVE OthersBeforeTool(_, _)
OthersBeforeTool(messages, j) ==
    IF Head(messages).role = "tool"
    THEN (IF j = 1 THEN 0 ELSE OthersBeforeTool(Tail(messages), j - 1))
    ELSE 1 + OthersBeforeTool(Tail(messages), j)

\* C22: createSingleToolResultRequests on a request with N > 1 messages of
\* role tool returns N requests in the order of the tool results; request j
\* keeps every other message in its order and the j-th message of role tool
\* alone, at its place among them, with the other fields of the request
\* unchanged; with N <= 1 it returns the request alone.
C22_SingleToolResultRequests ==
    singleToolRequests # <<>> =>
        LET req == openAIRequest[1]
            tools == ToolMessages(req.messages)
            single == singleToolRequests[1]
        IN  IF Len(tools) <= 1 THEN single = <<req>>
            ELSE /\ Len(single) = Len(tools)
                 /\ \A j \in 1 .. Len(single) :
                        /\ single[j].model = req.model /\ single[j].stream = req.stream
                        /\ OtherMessages(single[j].messages) = OtherMessages(req.messages)
                        /\ ToolMessages(single[j].messages) = <<tools[j]>>
                        /\ OthersBeforeTool(single[j].messages, 1)
                               = OthersBeforeTool(req.messages, j)

\* a request with three tool results, not all at the end, has been split
C22_Witness ==
    /\ singleToolRequests # <<>>
    /\ Len(singleToolRequests[1]) >= 3
    /\ \E j \in 1 .. Len(singleToolRequests[1]) :
           LET m == singleToolRequests[1][j].messages
           IN  FirstTool(m) < Len(m)
    /\ \E j \in 1 .. Len(singleToolRequests[1]) :
           singleToolRequests[1][j].messages # singleToolRequests[1][1].messages

\* C23: needsBatching returns true if and only if limitToolResults is true
\* and the request has more than one message of role tool.
C23_NeedsBatching ==
    needs # <<>> =>
        (needs[1] <=> (shouldBatch /\ Len(ToolMessages(openAIRequest[1].messages)) > 1))

\* needsBatching has returned true
C23_Witness ==
    /\ needs = <<TRUE>>
    /\ Len(ToolMessages(openAIRequest[1].messages)) = 2

\* number of tool results of the upstream request
ToolResultCount == Len(ToolMessages(openAIRequest[1].messages))

\* C24: a request that is not split makes exactly one upstream call, and a
\* batched request with N tool results makes exactly N upstream calls when
\* none fails.
C24_UpstreamCalls ==
    place.step = "done" =>
        Len(calls) = (IF ToolResultCount > 1 THEN ToolResultCount ELSE 1)

\* three tool results have given three calls
C24_Witness ==
    /\ place.step = "done"
    /\ ToolResultCount = 3
    /\ Len(calls) = 3

\* the upstream calls that are pending or whose stream is not yet consumed
InFlight == {j \in 1 .. Len(calls) : calls[j].status \in {"pending", "open"}}

\* C25: the upstream calls of a batch are serialized: the call of a request
\* is made only after the stream of the request before it has been consumed
\* to its end, at most one call is in flight at any time, and the events of
\* different streams are not interleaved in the output.
C25_Serialized ==
    /\ Cardinality(InFlight) <= 1
    /\ \A j \in 2 .. Len(calls) : calls[j - 1].status = "ended"
    /\ \A a \in 1 .. Len(outStream) : \A b \in a .. Len(outStream) :
           (outStream[a] # 0 /\ outStream[b] # 0) => outStream[a] <= outStream[b]

\* the second call is in flight after the first stream has yielded events
C25_Witness ==
    /\ Len(calls) = 2 /\ calls[2].status = "open"
    /\ \E a \in 1 .. Len(outStream) : outStream[a] = 1
    /\ \E b \in 1 .. Len(outStream) : outStream[b] = 2

\* C26: combineSingleToolResponses over N >= 1 responses returns the id and
\* the choices of the last response, with each of the prompt, completion and
\* total token counts equal to the sum over the N responses (a response
\* without usage counts for nothing).
C26_CombinedUsageIsSum ==
    (combined # <<>> /\ Len(responses[1]) >= 1) =>
        /\ ~combined[1].threw
        /\ LET baseResponse == responses[1][Len(responses[1])]
               value == combined[1].value[1]
           IN  /\ value.id = baseResponse.id /\ value.choices = baseResponse.choices
               /\ \A f \in UsageFields : TotalOf(<<value>>, f) = TotalOf(responses[1], f)

\* three responses with different usage have been combined
C26_Witness ==
    /\ combined # <<>> /\ Len(responses[1]) = 3
    /\ responses[1][1].usage # responses[1][2].usage
    /\ responses[1][3].usage # <<>>
    /\ TotalOf(combined[1].value, "total_tokens") > TotalOf(<<responses[1][3]>>, "total_tokens")

\* every upstream call of the batch was made and its stream ended after a
\* chunk with a finish reason
AllPartialsComplete ==
    /\ place.step = "done"
    /\ Len(calls) = Len(singleToolRequests[1])
    /\ \A j \in 1 .. Len(calls) : calls[j].status = "ended" /\ calls[j].finished

EventsOfBatch(type) == {n \in 1 .. Len(out) : out[n].type = type}

\* C27: a streaming batch whose partials all complete closes the turn with
\* exactly one message_delta that carries the usage summed over the partials,
\* followed at once by exactly one message_stop as the last event.
C27_OneDeltaThenStop ==
    (AllPartialsComplete /\ Len(calls) >= 2) =>
        /\ Len(out) >= 2
        /\ out[Len(out)] = MessageStopEvent
        /\ out[Len(out) - 1].type = "message_delta"
        /\ out[Len(out) - 1].usage = <<usageSeen>>
        /\ Cardinality(EventsOfBatch("message_delta")) = 1
        /\ Cardinality(EventsOfBatch("message_stop")) = 1

\* C28: when the call or the stream of partial j fails, the error goes to the
\* caller, no call is made for a partial after j, and neither message_delta
\* nor message_stop is yielded.
C28_FailureFailsBatch ==
    failedPartial # <<>> =>
        /\ place.step \in {"yieldedError", "failed"}
        /\ place.step = "failed" => thrown # <<>>
        /\ Len(calls) = failedPartial[1].batchNumber
        /\ EventsOfBatch("message_delta") = {} /\ EventsOfBatch("message_stop") = {}

\* the second of three partials has failed after the first has yielded events
C28_Witness ==
    /\ place.step = "failed" /\ thrown # <<>>
    /\ failedPartial # <<>> /\ failedPartial[1].batchNumber = 2
    /\ Len(singleToolRequests[1]) = 3
    /\ \E a \in 1 .. Len(outStream) : outStream[a] = 1

\* the events follow the grammar of the stream: a block is started once, a
\* delta or a stop is of an open block, and no block is open at message_stop
RECURSIVE FollowsGrammar(_, _, _)
FollowsGrammar(events, open, started) ==
    IF events = <<>> THEN TRUE
    ELSE LET e == Head(events)
         IN  IF e.type = "content_block_start"
             THEN e.index \notin started
                  /\ FollowsGrammar(Tail(events), open \cup {e.index}, started \cup {e.index})
             ELSE IF e.type = "content_block_delta"
             THEN e.index \in open /\ FollowsGrammar(Tail(events), open, started)
             ELSE IF e.type = "content_block_stop"
             THEN e.index \in open /\ FollowsGrammar(Tail(events), open \ {e.index}, started)
             ELSE IF e.type = "message_stop"
             THEN open = {} /\ FollowsGrammar(Tail(events), open, started)
             ELSE FollowsGrammar(Tail(events), open, started)

\* C29: over the events of all the partials of a streaming batch, every
\* content_block_start of an index is followed by one content_block_stop of
\* it before message_stop, every delta is of an open block, and no index is
\* started twice.
C29_BatchStreamGrammar ==
    (AllPartialsComplete /\ Len(calls) >= 2) => FollowsGrammar(out, {}, {})

\* C30: once the client has disconnected, no further chunk of the upstream is
\* consumed or translated: the upstream call is aborted and the accumulating
\* state of the session is not touched again.
C30_DisconnectAborts ==
    [][disconnected => (delivered' = delivered /\ UNCHANGED classVars)]_vars

----------------------------------------------------------------------------
(* Sessions side by side *)

\* the events a session emits, chunk by chunk, when it is the only one
RECURSIVE RunAlone(_, _)
RunAlone(s, chunks) ==
    IF chunks = <<>> THEN <<>>
    ELSE LET r == processChunk(s, Head(chunks))
         IN  <<r.events>> \o RunAlone(r.state, Tail(chunks))

\* C31: whatever the interleaving of the chunks of two sessions, each session
\* has emitted exactly the events it emits for its own chunks when run alone.
C31_SessionsIndependent ==
    \A id \in SessionIds :
        \E req \in Requests :
            sessions[id].emitted =
                RunAlone(NewStreamingToolCallState("actualUsage", req), sessions[id].fed)

\* C31: both sessions have taken chunks, the second one between two chunks of
\* the first, and both have emitted events
C31_Witness ==
    /\ Len(sessions[1].fed) >= 2
    /\ Len(sessions[2].fed) >= 1
    /\ sessions[1].emitted[1] # <<>>
    /\ sessions[2].emitted[1] # <<>>
    /\ sessions[1].fed # sessions[2].fed
    /\ C31_SessionsIndependent

\* the number of message_start events among the events of the chunks
RECURSIVE MessageStarts(_)
MessageStarts(emitted) ==
    IF emitted = <<>> THEN 0
    ELSE Len(SelectSeq(Head(emitted), LAMBDA e : e.type = "message_start"))
         + MessageStarts(Tail(emitted))

\* C32: a session emits message_start at most once, namely as an event of the
\* first chunk that carries a role marker; no other chunk, with or without a
\* role marker, emits one.
C32_MessageStartOnce ==
    \A id \in SessionIds :
        LET fed == sessions[id].fed
            emitted == sessions[id].emitted
        IN  /\ MessageStarts(emitted) <= 1
            /\ \A n \in 1 .. Len(fed) :
                   MessageStarts(<<emitted[n]>>) =
                       IF fed[n].role /\ \A m \in 1 .. n - 1 : ~fed[m].role THEN 1 ELSE 0

\* C32: a session has taken two chunks with a role marker, the first of them
\* after a chunk without one
C32_Witness ==
    \E id \in SessionIds :
        LET fed == sessions[id].fed
        IN  /\ Len(fed) = 3
            /\ ~fed[1].role /\ fed[2].role /\ fed[3].role
            /\ MessageStarts(sessions[id].emitted) = 1

\* the events of a session in the order they were written
RECURSIVE Flatten(_)
Flatten(emitted) ==
    IF emitted = <<>> THEN <<>> ELSE Head(emitted) \o Flatten(Tail(emitted))

BlockStarts(emitted) ==
    SelectSeq(Flatten(emitted), LAMBDA e : e.type = "content_block_start")

\* C33: within a session the content_block_start events carry strictly
\* increasing output indices, in whatever order the upstream first refers to
\* its tool-call indices and to text (streams that open with the role marker,
\* up to their finish reason).
\* the stream of the session opens with the role marker and has not finished
OpenTurn(fed) ==
    /\ fed # <<>>
    /\ fed[1].role
    /\ \A n \in 1 .. Len(fed) : fed[n].finish_reason = ""

C33_FirstReferenceOrder ==
    \A id \in SessionIds :
        OpenTurn(sessions[id].fed) =>
            LET starts == BlockStarts(sessions[id].emitted)
            IN  \A n \in 1 .. Len(starts) - 1 : starts[n].index < starts[n + 1].index

----------------------------------------------------------------------------
(* Finish reasons *)

StopReasonTable(reason) ==
    IF reason = ReasonString("stop") THEN "end_turn"
    ELSE IF reason = ReasonString("length") THEN "max_tokens"
    ELSE IF reason = ReasonString("tool_calls") THEN "tool_use"
    ELSE "end_turn"

\* C34: both translations of a finish reason follow the fixed table (stop to
\* end_turn, length to max_tokens, tool_calls to tool_use, everything else,
\* null and undefined included, to end_turn), so the two paths agree on
\* every input and always return a stop reason.
C34_FinishReasonTable ==
    \A n \in 1 .. Len(translated) :
        /\ translated[n].streaming = StopReasonTable(translated[n].reason)
        /\ translated[n].response = StopReasonTable(translated[n].reason)
        /\ translated[n].streaming = translated[n].response

\* C34: a known reason, an unknown one and a missing one have been translated
C34_Witness ==
    /\ Len(translated) = 3
    /\ translated[1].reason = ReasonString("length") /\ translated[1].streaming = "max_tokens"
    /\ translated[2].reason = ReasonString("content_filter") /\ translated[2].response = "end_turn"
    /\ translated[3].reason = ReasonNull /\ translated[3].streaming = "end_turn"

----------------------------------------------------------------------------
(* The shape of the translated messages *)

\* the positions of the messages of a role, in order
RECURSIVE PositionsOf(_, _, _)
PositionsOf(messages, role, n) ==
    IF n > Len(messages) THEN <<>>
    ELSE (IF messages[n].role = role THEN <<n>> ELSE <<>>)
         \o PositionsOf(messages, role, n + 1)

\* the messages of the upstream request that come from the turns
TurnMessages ==
    SelectSeq(openAIRequest[1].messages, LAMBDA m : m.role # "system")

\* how many upstream messages a user turn stands for
UserTurnSize(turn) ==
    IF turn.isString THEN 1
    ELSE (IF \E n \in 1 .. Len(turn.blocks) :
                 turn.blocks[n].type = "text"
                 \/ (turn.blocks[n].type = "image" /\ turn.blocks[n].name = "base64")
          THEN 1 ELSE 0)
         + Len(SelectBlocks(turn.blocks, {"tool_result"}))

RECURSIVE UserSizeBefore(_, _)
UserSizeBefore(turns, n) ==
    IF n <= 1 THEN 0
    ELSE UserSizeBefore(turns, n - 1)
         + (IF turns[n - 1].role = "user" THEN UserTurnSize(turns[n - 1]) ELSE 0)

\* the turn has neither text nor tool calls
EmptyTurn(turn) ==
    ~turn.isString /\ SelectBlocks(turn.blocks, {"text", "tool_use"}) = <<>>

\* C35: the assistant messages of the upstream request are, one for one and
\* in order, the assistant turns of the request, each at the position of its
\* turn among the messages of the other turns; the message of a turn without
\* text and without tool calls has the empty string as content.
C35_OneMessagePerAssistantTurn ==
    openAIRequest # <<>> =>
        LET turns == request[1].messages
            sent == TurnMessages
            from == PositionsOf(turns, "assistant", 1)
            to == PositionsOf(sent, "assistant", 1)
        IN  /\ Len(from) = Len(to)
            /\ \A k \in 1 .. Len(from) :
                   /\ to[k] = k + UserSizeBefore(turns, from[k])
                   /\ Len(sent[to[k]].tool_calls)
                          = IF turns[from[k]].isString THEN 0
                            ELSE Len(SelectBlocks(turns[from[k]].blocks, {"tool_use"}))
                   /\ turns[from[k]].isString
                          => sent[to[k]].content = StringContent(turns[from[k]].text)
                   /\ EmptyTurn(turns[from[k]])
                          => sent[to[k]].content = StringContent(<<>>)

\* C35: an assistant turn without text and without tool calls stands between
\* two other turns and has been translated
C35_Witness ==
    /\ openAIRequest # <<>>
    /\ Len(request[1].messages) = 3
    /\ request[1].messages[1].role = "user"
    /\ request[1].messages[2].role = "assistant"
    /\ EmptyTurn(request[1].messages[2])
    /\ request[1].messages[3].role = "user"
    /\ \E n \in 2 .. Len(TurnMessages) - 1 :
           /\ TurnMessages[n].role = "assistant"
           /\ TurnMessages[n].content = StringContent(<<>>)

\* how many upstream messages stand for the turns before turn n
RECURSIVE SizeBefore(_, _)
SizeBefore(turns, n) ==
    IF n <= 1 THEN 0
    ELSE SizeBefore(turns, n - 1)
         + (IF turns[n - 1].role = "user" THEN UserTurnSize(turns[n - 1]) ELSE 1)

\* the content the text and image blocks of a user turn stand for: the text
\* itself when they are one text block, otherwise the list of them in order
ContentShape(blocks) ==
    IF Len(blocks) = 1 /\ blocks[1].type = "text"
    THEN StringContent(blocks[1].text)
    ELSE PartsContent(blocks)

\* C36: the user message of a turn whose text and image blocks are exactly
\* one text block has that text as a plain string for content; for any other
\* combination of text and image blocks its content is the list of these
\* blocks in their order.
C36_UserContentShape ==
    openAIRequest # <<>> =>
        \A n \in 1 .. Len(request[1].messages) :
            LET turn == request[1].messages[n]
                blocks == SelectBlocks(turn.blocks, {"text", "image"})
                at == SizeBefore(request[1].messages, n) + 1
            IN  (turn.role = "user" /\ ~turn.isString /\ blocks # <<>>) =>
                    /\ at <= Len(TurnMessages)
                    /\ TurnMessages[at].role = "user"
                    /\ TurnMessages[at].content = ContentShape(blocks)

----------------------------------------------------------------------------
(* The estimate of the input tokens *)

\* one ceiling per text unit and nothing else: the system text and the text
\* of every message
RECURSIVE SumOfCeilings(_)
SumOfCeilings(lens) ==
    IF lens = <<>> THEN 0 ELSE CeilDiv4(Head(lens)) + SumOfCeilings(Tail(lens))

\* C37: the estimate of the input tokens of the request of a session is the
\* sum, over the text units of the request, of the length of the unit divided
\* by 4 and rounded up, with no other contribution.
C37_EstimateIsSumOfCeilings ==
    \E req \in Requests :
        estimatedInputTokens = CeilDiv4(req.system) + SumOfCeilings(req.messages)

----------------------------------------------------------------------------
(* Tool results next to their tool calls *)

\* every tool_result block answers a tool_use block of the assistant turn
\* just before its turn
AnswersPreviousTurn(turns) ==
    \A n \in 1 .. Len(turns) :
        turns[n].isString
        \/ \A b \in 1 .. Len(turns[n].blocks) :
               turns[n].blocks[b].type = "tool_result" =>
                   /\ n > 1
                   /\ turns[n - 1].role = "assistant"
                   /\ ~turns[n - 1].isString
                   /\ \E u \in 1 .. Len(turns[n - 1].blocks) :
                          /\ turns[n - 1].blocks[u].type = "tool_use"
                          /\ turns[n - 1].blocks[u].id = turns[n].blocks[b].id

\* C38: in the messages of the upstream request every message of role tool
\* comes after the assistant message whose tool_calls hold its tool_call_id,
\* with nothing but messages of role tool between the two.
C38_ToolMessagesFollowCall ==
    (openAIRequest # <<>> /\ AnswersPreviousTurn(request[1].messages)) =>
        LET sent == openAIRequest[1].messages
        IN  \A n \in 1 .. Len(sent) :
                sent[n].role = "tool" =>
                    \E a \in 1 .. n - 1 :
                        /\ sent[a].role = "assistant"
                        /\ \E c \in 1 .. Len(sent[a].tool_calls) :
                               sent[a].tool_calls[c].id = sent[n].tool_call_id
                        /\ \A m \in a + 1 .. n - 1 : sent[m].role = "tool"

----------------------------------------------------------------------------
(* The arguments written and the arguments accumulated *)

\* C39: at every point of a session before its finish reason, for every
\* tool-call index whose block has been opened, the partial_json payloads
\* written for the index, put together, are the accumulated arguments of the
\* call, also when argument fragments came before the id or the name.
C39_WrittenArgumentsAreAccumulated ==
    finishCount = 0 =>
        \A i \in ToolIndexes :
            wire.toolStarts[i] > 0 => wire.json[i] = getAccumulatedArguments(toolCalls, i)

----------------------------------------------------------------------------
(* The opening of the turn of a batch *)

\* C40: over all partial streams of a streaming batch at most one
\* message_start is yielded, and only as an event of the first partial: the
\* role markers of the later partials yield none.
C40_SingleTurnOpening ==
    /\ Cardinality(EventsOfBatch("message_start")) <= 1
    /\ \A n \in EventsOfBatch("message_start") : outStream[n] = 1

\* C40: the first two partials of a batch have both sent a role marker and
\* the batch has yielded its one message_start
C40_Witness ==
    /\ Len(calls) >= 2
    /\ calls[1].role
    /\ calls[2].role
    /\ Cardinality(EventsOfBatch("message_start")) = 1
    /\ out[1].type = "message_start" /\ outStream[1] = 1

====
